---- MODULE Spec2Model ----
(***************************************************************************)
(* A model of the concurrent scan pipeline of find-shai-hulud-fast:         *)
(*   - the WorkerPool of src/scanner/index.ts (submit, dispatch, the        *)
(*     onmessage / onerror handlers, drain, terminate),                     *)
(*   - the scan() driver and its pending set,                               *)
(*   - the worker side of src/scanner/worker.ts (self.onmessage and         *)
(*     handleScan with the package-lock matcher).                           *)
(* One action is one task of an event loop: a handler together with every   *)
(* promise reaction (microtask) it triggers.                                *)
(***************************************************************************)
EXTENDS Integers, Sequences, FiniteSets, TLC

(* ------------------------------ bounds -------------------------------- *)
NumFiles == 6
MaxThreads == 2
MaxFaults == 1
MaxWalkErrors == 1
MaxClientJobs == 4
MaxBytes == 2             \* options.maxBytes, in fragments

(* ----------------------------- constants ------------------------------ *)
NoJob == 0
NoError == ""
DefaultMaxBytes == 5242880
SignatureSource == 3      \* the walk index of the manifest's own path

VARIABLES
  threads,     \* scan: the pool size N (options.threads)
  workers,     \* WorkerPool.workers: array of [busy, currentJob]
  queue,       \* WorkerPool.queue: array of jobs (a job is named by its path)
  posted,      \* every worker.postMessage of the pool, in call order
  taken,       \* per worker: how many of its messages it has handled
  wk,          \* per worker: module state of worker.ts and the scans in progress
  outbox,      \* per worker: events on their way to the pool (results, error)
  promise,     \* per path: state of the jobPromise created for it
  pending,     \* scan: the pending set
  detections,  \* scan: detections array
  errors,      \* scan: errors array
  metrics,     \* Metrics.state
  pc,          \* where scan() is suspended
  nextEntry,   \* walkPaths: index of the next entry it yields
  walkErrs,    \* number of error entries yielded so far
  drainLatch,  \* drain(): per record, the state of its promise
  drainState,  \* drain(): state of the promise drain() returned
  faults,      \* number of worker faults so far
  mt,          \* one handleScan call on its own: [sigs, maxBytes, file, result]
  ld,          \* one loadSignatures call: manifests on disk, call stack, outcome
  wlk,         \* one walkPaths call: disk, options, stack, entries yielded
  cli,         \* one run of the CLI's main(): inputs, position, exit code
  boot,        \* one call of scan() up to its first walk entry
  gl,          \* one matchGlob call: its arguments and what it returned
  pkgs         \* one loadManifest call from its line 385: manifest, result

vars == <<threads, workers, queue, posted, taken, wk, outbox, promise, pending,
          detections, errors, metrics, pc, nextEntry, walkErrs, drainLatch,
          drainState, faults, mt, ld, wlk, cli, boot, gl, pkgs>>

(* ======================== text: strings as sequences ==================== *)
(* A string is a sequence of fragments; "/", "*", "?", "@" and "\\" are     *)
(* fragments of one character.                                              *)

\* String.prototype.toLowerCase, fragment by fragment
LowerAtom(a) ==
  CASE a = "EVIL" -> "evil"
    [] a = "A" -> "a"
    [] a = "Latest" -> "latest"
    [] a = "LINE" -> "line"
    [] a = "PACKAGE-LOCK.JSON" -> "package-lock.json"
    [] OTHER -> a

ToLowerCase(s) == [i \in DOMAIN s |-> LowerAtom(s[i])]

\* String.prototype.includes
Includes(s, needle) ==
  \E k \in 0..(Len(s) - Len(needle)) :
    \A i \in 1..Len(needle) : s[k + i] = needle[i]

\* String.prototype.endsWith
EndsWith(s, suffix) ==
  /\ Len(suffix) <= Len(s)
  /\ \A i \in 1..Len(suffix) : s[Len(s) - Len(suffix) + i] = suffix[i]

\* Array.prototype.find: the first element whose index is in hits (the
\* indices of the elements that satisfy the test), as a sequence of length 0
\* (undefined) or 1
Find(s, hits) ==
  IF hits = {} THEN <<>>
  ELSE <<s[CHOOSE i \in hits : \A j \in hits : i <= j]>>

\* the non-empty sequences over alphabet of length up to n
SeqsUpTo(alphabet, n) == UNION {[1..k -> alphabet] : k \in 1..n}

(* ============================ glob matcher ============================== *)
PathSep == "/"

\* globToRegExp: the regex as a sequence of tokens
\*   "(?:.*/)?" -> SEGS, ".*" -> ANY, "[^/]*" -> STAR, "." -> ONE, else literal
RECURSIVE GlobTokens(_, _)
GlobTokens(glob, i) ==
  IF i > Len(glob) THEN <<>>
  ELSE IF glob[i] = "*"
       THEN IF i + 1 <= Len(glob) /\ glob[i + 1] = "*"
            THEN IF i + 2 <= Len(glob) /\ glob[i + 2] = "/"
                 THEN <<[t |-> "SEGS", c |-> ""]>> \o GlobTokens(glob, i + 3)
                 ELSE <<[t |-> "ANY", c |-> ""]>> \o GlobTokens(glob, i + 2)
            ELSE <<[t |-> "STAR", c |-> ""]>> \o GlobTokens(glob, i + 1)
       ELSE IF glob[i] = "?"
            THEN <<[t |-> "ONE", c |-> ""]>> \o GlobTokens(glob, i + 1)
            ELSE <<[t |-> "LIT", c |-> glob[i]]>> \o GlobTokens(glob, i + 1)

globToRegExp(glob) ==
  GlobTokens([i \in DOMAIN glob |-> IF glob[i] = "\\" THEN "/" ELSE glob[i]], 1)

\* a matcher whose "[^/]*" also runs over separators
RECURSIVE RegexMatch_StarCrossesSep(_, _, _, _)
RegexMatch_StarCrossesSep(toks, i, s, j) ==
  IF i > Len(toks) THEN j > Len(s)
  ELSE
    CASE toks[i].t = "LIT" ->
           /\ j <= Len(s)
           /\ LowerAtom(s[j]) = LowerAtom(toks[i].c)
           /\ RegexMatch_StarCrossesSep(toks, i + 1, s, j + 1)
      [] toks[i].t = "ONE" ->
           /\ j <= Len(s)
           /\ RegexMatch_StarCrossesSep(toks, i + 1, s, j + 1)
      [] toks[i].t \in {"STAR", "ANY"} ->
           \E k \in j..(Len(s) + 1) : RegexMatch_StarCrossesSep(toks, i + 1, s, k)
      [] toks[i].t = "SEGS" ->
           \/ RegexMatch_StarCrossesSep(toks, i + 1, s, j)
           \/ \E k \in j..Len(s) :
                s[k] = "/" /\ RegexMatch_StarCrossesSep(toks, i + 1, s, k + 1)

\* RegExp.prototype.test of the anchored, case-insensitive regex
RECURSIVE RegexMatch(_, _, _, _)
RegexMatch(toks, i, s, j) ==
  IF i > Len(toks) THEN j > Len(s)
  ELSE
    CASE toks[i].t = "LIT" ->
           /\ j <= Len(s)
           /\ LowerAtom(s[j]) = LowerAtom(toks[i].c)
           /\ RegexMatch(toks, i + 1, s, j + 1)
      [] toks[i].t = "ONE" ->
           /\ j <= Len(s)
           /\ RegexMatch(toks, i + 1, s, j + 1)
      [] toks[i].t = "STAR" ->
           \E k \in j..(Len(s) + 1) :
             /\ \A m \in j..(k - 1) : s[m] # "/"
             /\ RegexMatch(toks, i + 1, s, k)
      [] toks[i].t = "ANY" ->
           \E k \in j..(Len(s) + 1) : RegexMatch(toks, i + 1, s, k)
      [] toks[i].t = "SEGS" ->
           \/ RegexMatch(toks, i + 1, s, j)
           \/ \E k \in j..Len(s) :
                s[k] = "/" /\ RegexMatch(toks, i + 1, s, k + 1)

matchGlob(targetPath, globPattern) ==
  LET normalizedPath ==
        [i \in DOMAIN targetPath |->
           IF targetPath[i] = PathSep THEN "/" ELSE targetPath[i]]
  IN RegexMatch(globToRegExp(globPattern), 1, normalizedPath, 1)

\* sha256File: the lowercase hex digest of the file's whole contents
NoDigest == <<>>
Sha256(bytes) == <<"sha256:">> \o bytes

(* ===================== worker.ts: package-lock matcher ================== *)
Absent == "<absent>"      \* a property that is missing or not a string

MakeMatch(sig, type, value) ==
  [signatureId |-> sig.id, title |-> sig.title, severity |-> sig.severity,
   description |-> sig.description, indicatorType |-> type,
   indicatorValue |-> value]

PackageToken(name, version) == <<name, "@", version>>

\* an index looked up by name only
PackageSigs_AnyVersion(sigs, name, version) ==
  IF name = "" \/ version = "" THEN <<>>
  ELSE SelectSeq(sigs, LAMBDA sg :
         \E i \in DOMAIN sg.packages : sg.packages[i].name = name)

\* rebuildPackageIndex: packageIndex.get(name)?.get(version), the signatures
\* that list the pair, in signature order, each once
PackageSigs(sigs, name, version) ==
  IF name = "" \/ version = "" THEN <<>>
  ELSE SelectSeq(sigs, LAMBDA sg :
         \E i \in DOMAIN sg.packages :
           sg.packages[i].name = name /\ sg.packages[i].version = version)

\* rebuildPackageIndex: packageTokens, by first insertion of the name and,
\* within a name, first insertion of the version
RECURSIVE Flatten(_)
Flatten(ss) == IF ss = <<>> THEN <<>> ELSE Head(ss) \o Flatten(Tail(ss))

RECURSIVE Dedupe(_)
Dedupe(s) ==
  IF s = <<>> THEN <<>>
  ELSE LET rest == Dedupe(SubSeq(s, 1, Len(s) - 1))
           last == s[Len(s)]
       IN IF \E i \in DOMAIN rest : rest[i] = last THEN rest
          ELSE Append(rest, last)

PackageTokens(sigs) ==
  LET pairs == SelectSeq(Flatten([i \in DOMAIN sigs |-> sigs[i].packages]),
                         LAMBDA pk : pk.name # "" /\ pk.version # "")
      names == Dedupe([i \in DOMAIN pairs |-> pairs[i].name])
      versionsOf(n) ==
        LET mine == SelectSeq(pairs, LAMBDA pk : pk.name = n)
        IN Dedupe([i \in DOMAIN mine |-> mine[i].version])
  IN Flatten([i \in DOMAIN names |->
       [j \in DOMAIN versionsOf(names[i]) |->
          [name |-> names[i], version |-> versionsOf(names[i])[j]]]])

shouldForceFullRead(filePath) ==
  LET lower == ToLowerCase(filePath)
  IN \/ EndsWith(lower, <<"package-lock.json">>)
     \/ EndsWith(lower, <<"npm-shrinkwrap.json">>)
     \/ EndsWith(lower, <<"yarn.lock">>)
     \/ EndsWith(lower, <<"pnpm-lock.yaml">>)
     \/ EndsWith(lower, <<"pnpm-lock.yml">>)
     \/ EndsWith(lower, <<"bun.lock">>)
     \/ EndsWith(lower, <<"bun.lockb">>)

\* key.split("node_modules/"): the text after the last separator
RECURSIVE JoinAtoms(_)
JoinAtoms(s) == IF s = <<>> THEN "" ELSE Head(s) \o JoinAtoms(Tail(s))

LastKeyPart(key) ==
  LET seps == {i \in DOMAIN key : key[i] = "node_modules/"}
      from == IF seps = {} THEN 1
              ELSE 1 + CHOOSE i \in seps : \A j \in seps : j <= i
  IN JoinAtoms(SubSeq(key, from, Len(key)))

\* the result null is Absent
extractPackageNameFromKey(key, value) ==
  IF key = <<>>
  THEN IF value.kind = "object" /\ value.name # Absent THEN value.name ELSE Absent
  ELSE IF value.kind = "object" /\ value.name # Absent THEN value.name
       ELSE IF LastKeyPart(key) = "" THEN Absent ELSE LastKeyPart(key)

\* st = [matches, seen]; seen holds the pairs <<signature id, indicator value>>
RECURSIVE RecordSigs(_, _, _, _)
RecordSigs(st, forVersion, i, indicatorValue) ==
  IF i > Len(forVersion) THEN st
  ELSE LET signature == forVersion[i]
       IN IF <<signature.id, indicatorValue>> \in st.seen
          THEN RecordSigs(st, forVersion, i + 1, indicatorValue)
          ELSE RecordSigs(
                 [matches |-> Append(st.matches,
                                MakeMatch(signature, "package", indicatorValue)),
                  seen |-> st.seen \cup {<<signature.id, indicatorValue>>}],
                 forVersion, i + 1, indicatorValue)

recordPackageMatch(sigs, st, name, version) ==
  RecordSigs(st, PackageSigs(sigs, name, version), 1, PackageToken(name, version))

\* deps: sequence of [name, value]; value.kind is "string" (value.str), "object"
\* (value.version, value.dependencies) or "other"
RECURSIVE walkLockDependencies(_, _, _, _)
walkLockDependencies(sigs, st, deps, i) ==
  IF i > Len(deps) THEN st
  ELSE LET depName == deps[i].name
           value == deps[i].value
       IN CASE value.kind = "string" ->
                 walkLockDependencies(sigs,
                   recordPackageMatch(sigs, st, depName, value.str), deps, i + 1)
            [] value.kind = "object" ->
                 LET st1 == IF value.version # Absent
                            THEN recordPackageMatch(sigs, st, depName, value.version)
                            ELSE st
                     st2 == walkLockDependencies(sigs, st1, value.dependencies, 1)
                 IN walkLockDependencies(sigs, st2, deps, i + 1)
            [] OTHER -> walkLockDependencies(sigs, st, deps, i + 1)

RECURSIVE ScanPackagesMap(_, _, _, _)
ScanPackagesMap(sigs, st, packages, i) ==
  IF i > Len(packages) THEN st
  ELSE LET key == packages[i].key
           value == packages[i].value
           name == extractPackageNameFromKey(key, value)
       IN IF value.kind # "object" \/ value.version = Absent \/ name = Absent
             \/ name = ""
          THEN ScanPackagesMap(sigs, st, packages, i + 1)
          ELSE ScanPackagesMap(sigs,
                 recordPackageMatch(sigs, st, name, value.version), packages, i + 1)

\* JSON.parse(content): the document the file's full text stands for
InvalidJson == [valid |-> FALSE, packages |-> <<>>, dependencies |-> <<>>]

JsonParse(content, f) == IF content = f.bytes THEN f.json ELSE InvalidJson

\* lines 228-234: the tokens name@version found in the text
RECURSIVE CheckTokens(_, _, _, _)
CheckTokens(sigs, st, content, i) ==
  LET tokens == PackageTokens(sigs)
  IN IF i > Len(tokens) THEN st
     ELSE CheckTokens(sigs,
            IF Includes(content, PackageToken(tokens[i].name, tokens[i].version))
            THEN recordPackageMatch(sigs, st, tokens[i].name, tokens[i].version)
            ELSE st,
            content, i + 1)

\* a scanPackageLock that looks for the tokens name@version in a text it
\* cannot parse
scanPackageLock_TokenFallback(sigs, st, content, f) ==
  LET data == JsonParse(content, f)
  IN IF ~data.valid THEN CheckTokens(sigs, st, content, 1)
     ELSE walkLockDependencies(sigs,
            ScanPackagesMap(sigs, st, data.packages, 1), data.dependencies, 1)

\* lines 182-210
scanPackageLock(sigs, st, content, f) ==
  LET data == JsonParse(content, f)
  IN IF ~data.valid THEN st
     ELSE walkLockDependencies(sigs,
            ScanPackagesMap(sigs, st, data.packages, 1), data.dependencies, 1)

detectCompromisedPackages(sigs, f, content) ==
  LET lowerPath == ToLowerCase(f.path)
      st0 == [matches |-> <<>>, seen |-> {}]
  IN IF PackageTokens(sigs) = <<>> THEN <<>>
     ELSE IF \/ EndsWith(lowerPath, <<"package-lock.json">>)
             \/ EndsWith(lowerPath, <<"npm-shrinkwrap.json">>)
          THEN scanPackageLock(sigs, st0, content, f).matches
          ELSE IF \/ EndsWith(lowerPath, <<"pnpm-lock.yaml">>)
                  \/ EndsWith(lowerPath, <<"pnpm-lock.yml">>)
                  \/ EndsWith(lowerPath, <<"yarn.lock">>)
                  \/ EndsWith(lowerPath, <<"bun.lock">>)
                  \/ EndsWith(lowerPath, <<"bun.lockb">>)
               THEN CheckTokens(sigs, st0, content, 1).matches
               ELSE <<>>

(* ========================= worker.ts: handleScan ======================== *)
(* A file f is [path, exists, bytes, chunk, readError, hashError, json]:    *)
(* bytes the full contents, chunk the size of the chunks its stream yields, *)
(* readError / hashError the message thrown by the content read / by        *)
(* sha256File (NoError: none), json what JSON.parse gives for the full text.*)
(* A compiled signature is [id, title, severity, description, globs,        *)
(* strings, regexes, hashes, packages].                                     *)

\* a regex compiled from a literal pattern with the flag "i"
RegexTest(regex, content) ==
  Includes(ToLowerCase(content), ToLowerCase(regex.source))

\* signature.globs.find((glob) => matchGlob(path, glob)) ?? null, <<>> for null
MatchedGlob(signature, path) ==
  LET hit == Find(signature.globs,
                  {x \in DOMAIN signature.globs : matchGlob(path, signature.globs[x])})
  IN IF hit # <<>> /\ hit[1] # <<>> THEN hit ELSE <<>>

\* lines 279-292: the signatures that pass the glob filter
RelevantSignatures(sigs, path) ==
  SelectSeq(sigs, LAMBDA signature :
    signature.globs = <<>> \/ MatchedGlob(signature, path) # <<>>)

\* content wanted for every file that passed the glob filter
NeedsContent_Always(rel) == rel # <<>>

\* line 289: some relevant signature has strings, regexes or packages
NeedsContent(rel) ==
  \E i \in DOMAIN rel :
    rel[i].strings # <<>> \/ rel[i].regexes # <<>> \/ rel[i].packages # <<>>

IsGlobOnly(signature) ==
  /\ signature.globs # <<>>
  /\ signature.strings = <<>>
  /\ signature.regexes = <<>>
  /\ signature.hashes = <<>>
  /\ signature.packages = <<>>

\* lines 298-316
RECURSIVE GlobOnlyMatches(_, _, _)
GlobOnlyMatches(rel, path, i) ==
  IF i > Len(rel) THEN <<>>
  ELSE (IF IsGlobOnly(rel[i]) /\ MatchedGlob(rel[i], path) # <<>>
        THEN <<MakeMatch(rel[i], "glob", MatchedGlob(rel[i], path)[1])>>
        ELSE <<>>) \o GlobOnlyMatches(rel, path, i + 1)

\* lines 327-339: chunks are read while accumulated < maxBytes
RECURSIVE Accumulated(_, _, _, _)
Accumulated(total, chunk, maxB, acc) ==
  IF acc < maxB /\ acc < total
  THEN Accumulated(total, chunk, maxB,
                   IF acc + chunk > total THEN total ELSE acc + chunk)
  ELSE acc

ReadContent(f, size, maxB, forceFullRead) ==
  IF ~forceFullRead /\ size > maxB
  THEN SubSeq(f.bytes, 1, Accumulated(Len(f.bytes), f.chunk, maxB, 0))
  ELSE f.bytes

\* a digest taken over the first chunk of the stream only
ensureDigest_FirstChunk(st, f) ==
  IF st.digest # NoDigest THEN st
  ELSE IF f.hashError # NoError
       THEN [st EXCEPT !.digestCalls = @ + 1, !.error = f.hashError]
       ELSE [st EXCEPT !.digestCalls = @ + 1,
                       !.digest = Sha256(IF f.chunk < Len(f.bytes)
                                           THEN SubSeq(f.bytes, 1, f.chunk)
                                         ELSE f.bytes)]

\* an ensureDigest that hashes the file on every call
ensureDigest_NoMemo(st, f) ==
  IF f.hashError # NoError
  THEN [st EXCEPT !.digestCalls = @ + 1, !.error = f.hashError]
  ELSE [st EXCEPT !.digestCalls = @ + 1, !.digest = Sha256(f.bytes)]

\* lines 347-352; st = [matches, digest, digestCalls, error]
ensureDigest(st, f) ==
  IF st.digest # NoDigest THEN st
  ELSE IF f.hashError # NoError
       THEN [st EXCEPT !.digestCalls = @ + 1, !.error = f.hashError]
       ELSE [st EXCEPT !.digestCalls = @ + 1, !.digest = Sha256(f.bytes)]

GlobMatchesHas(rel, id) == \E i \in DOMAIN rel : rel[i].id = id

\* a faulty text pass without the matched test of lines 356-357 and without
\* the continue that follows a match: every kind of indicator is tried
RECURSIVE TextPass_NoContinue(_, _, _, _, _)
TextPass_NoContinue(rel, i, st, content, f) ==
  IF i > Len(rel) \/ st.error # NoError THEN st
  ELSE
    LET signature == rel[i]
        str == Find(signature.strings,
                    {x \in DOMAIN signature.strings :
                       Includes(ToLowerCase(content), signature.strings[x])})
        re == Find(signature.regexes,
                   {x \in DOMAIN signature.regexes :
                      RegexTest(signature.regexes[x], content)})
        push(s1, type, value) ==
          [s1 EXCEPT !.matches = Append(@, MakeMatch(signature, type, value))]
        st1 == IF str # <<>> /\ str[1] # <<>> THEN push(st, "string", str[1]) ELSE st
        st2 == IF re # <<>> THEN push(st1, "regex", re[1].source) ELSE st1
        st3 == IF signature.hashes # <<>> THEN ensureDigest(st2, f) ELSE st2
        ind == Find(signature.hashes,
                    {x \in DOMAIN signature.hashes : signature.hashes[x] = st3.digest})
        st4 == IF st3.error = NoError /\ ind # <<>>
               THEN push(st3, "sha256", ind[1]) ELSE st3
    IN TextPass_NoContinue(rel, i + 1, st4, content, f)

\* a text pass that tries the regexes of a signature before its strings
RECURSIVE TextPass_RegexFirst(_, _, _, _, _)
TextPass_RegexFirst(rel, i, st, content, f) ==
  IF i > Len(rel) \/ st.error # NoError THEN st
  ELSE
    LET signature == rel[i]
        matched == \E k \in DOMAIN st.matches :
                     st.matches[k].signatureId = signature.id
        str == Find(signature.strings,
                    {x \in DOMAIN signature.strings :
                       Includes(ToLowerCase(content), signature.strings[x])})
        re == Find(signature.regexes,
                   {x \in DOMAIN signature.regexes :
                      RegexTest(signature.regexes[x], content)})
        push(s1, type, value) ==
          [s1 EXCEPT !.matches = Append(@, MakeMatch(signature, type, value))]
    IN IF matched THEN TextPass_RegexFirst(rel, i + 1, st, content, f)
       ELSE IF signature.globs # <<>> /\ ~GlobMatchesHas(rel, signature.id)
       THEN TextPass_RegexFirst(rel, i + 1, st, content, f)
       ELSE IF re # <<>>
       THEN TextPass_RegexFirst(rel, i + 1, push(st, "regex", re[1].source), content, f)
       ELSE IF str # <<>> /\ str[1] # <<>>
       THEN TextPass_RegexFirst(rel, i + 1, push(st, "string", str[1]), content, f)
       ELSE IF signature.hashes # <<>>
       THEN LET st1 == ensureDigest(st, f)
                ind == Find(signature.hashes,
                         {x \in DOMAIN signature.hashes :
                            signature.hashes[x] = st1.digest})
            IN IF st1.error # NoError THEN st1
               ELSE IF ind # <<>>
                    THEN TextPass_RegexFirst(rel, i + 1, push(st1, "sha256", ind[1]),
                                             content, f)
                    ELSE TextPass_RegexFirst(rel, i + 1, st1, content, f)
       ELSE TextPass_RegexFirst(rel, i + 1, st, content, f)

\* lines 355-406
RECURSIVE TextPass(_, _, _, _, _)
TextPass(rel, i, st, content, f) ==
  IF i > Len(rel) \/ st.error # NoError THEN st
  ELSE
    LET signature == rel[i]
        lower == ToLowerCase(content)
        matched == \E k \in DOMAIN st.matches :
                     st.matches[k].signatureId = signature.id
        str == Find(signature.strings,
                    {x \in DOMAIN signature.strings :
                       Includes(lower, signature.strings[x])})
        re == Find(signature.regexes,
                   {x \in DOMAIN signature.regexes :
                      RegexTest(signature.regexes[x], content)})
        push(s1, type, value) ==
          [s1 EXCEPT !.matches = Append(@, MakeMatch(signature, type, value))]
    IN IF matched THEN TextPass(rel, i + 1, st, content, f)
       ELSE IF signature.globs # <<>> /\ ~GlobMatchesHas(rel, signature.id)
       THEN TextPass(rel, i + 1, st, content, f)
       ELSE IF str # <<>> /\ str[1] # <<>>
       THEN TextPass(rel, i + 1, push(st, "string", str[1]), content, f)
       ELSE IF re # <<>>
       THEN TextPass(rel, i + 1, push(st, "regex", re[1].source), content, f)
       ELSE IF signature.hashes # <<>>
       THEN LET st1 == ensureDigest(st, f)
                ind == Find(signature.hashes,
                         {x \in DOMAIN signature.hashes :
                            signature.hashes[x] = st1.digest})
            IN IF st1.error # NoError THEN st1
               ELSE IF ind # <<>>
                    THEN TextPass(rel, i + 1, push(st1, "sha256", ind[1]), content, f)
                    ELSE TextPass(rel, i + 1, st1, content, f)
       ELSE TextPass(rel, i + 1, st, content, f)

\* package matches pushed without the alreadyExists test of lines 410-415,
\* by a loop that runs a second time
MergePackageMatches_TwiceUnchecked(matches, packageMatches, i) ==
  matches \o packageMatches \o packageMatches

\* lines 408-419
RECURSIVE MergePackageMatches(_, _, _)
MergePackageMatches(matches, packageMatches, i) ==
  IF i > Len(packageMatches) THEN matches
  ELSE LET match == packageMatches[i]
           alreadyExists ==
             \E k \in DOMAIN matches :
               /\ matches[k].signatureId = match.signatureId
               /\ matches[k].indicatorType = match.indicatorType
               /\ matches[k].indicatorValue = match.indicatorValue
       IN MergePackageMatches(
            IF alreadyExists THEN matches ELSE Append(matches, match),
            packageMatches, i + 1)

\* lines 420-436
RECURSIVE HashPass(_, _, _, _)
HashPass(rel, i, st, hash) ==
  IF i > Len(rel) THEN st
  ELSE LET signature == rel[i]
       IN IF signature.globs # <<>> /\ ~GlobMatchesHas(rel, signature.id)
          THEN HashPass(rel, i + 1, st, hash)
          ELSE IF \E k \in DOMAIN signature.hashes : signature.hashes[k] = hash
               THEN HashPass(rel, i + 1,
                      [st EXCEPT !.matches =
                         Append(@, MakeMatch(signature, "sha256", hash))], hash)
               ELSE HashPass(rel, i + 1, st, hash)

\* the body of handleScan's try block; error # NoError stands for a throw
ScanCore(sigs, maxB, size, f) ==
  LET rel == RelevantSignatures(sigs, f.path)
      needsContent == NeedsContent(rel)
      forceFullRead == needsContent /\ shouldForceFullRead(f.path)
      content == IF needsContent THEN ReadContent(f, size, maxB, forceFullRead)
                 ELSE <<>>
      st0 == [matches |-> GlobOnlyMatches(rel, f.path, 1), digest |-> NoDigest,
              digestCalls |-> 0, error |-> NoError]
      out(st, bytesRead, read) ==
        [bytesRead |-> bytesRead, matches |-> st.matches, error |-> st.error,
         digestCalls |-> st.digestCalls, contentRead |-> read]
  IN IF ~f.exists
     THEN out([st0 EXCEPT !.matches = <<>>, !.error = "missing"], 0, FALSE)
     ELSE IF rel = <<>> THEN out([st0 EXCEPT !.matches = <<>>], 0, FALSE)
     ELSE IF needsContent /\ f.readError # NoError
     THEN out([st0 EXCEPT !.error = f.readError], 0, TRUE)
     ELSE IF content # <<>>
     THEN LET st1 == TextPass(rel, 1, st0, content, f)
          IN IF st1.error # NoError THEN out(st1, Len(content), TRUE)
             ELSE out([st1 EXCEPT !.matches =
                         MergePackageMatches(@,
                           detectCompromisedPackages(sigs, f, content), 1)],
                      Len(content), TRUE)
     ELSE IF \E i \in DOMAIN rel : rel[i].hashes # <<>>
     THEN LET st1 == ensureDigest(st0, f)
          IN IF st1.error # NoError THEN out(st1, Len(content), needsContent)
             ELSE out(HashPass(rel, 1, st1, st1.digest), Len(content), needsContent)
     ELSE out(st0, Len(content), needsContent)

\* a faulty catch block that hands back what the try block had collected
handleScan_LeakMatches(sigs, maxB, message, f) ==
  LET r == ScanCore(sigs, maxB, message.size, f)
  IN [type |-> "result", path |-> message.path, bytesRead |-> r.bytesRead,
      matches |-> r.matches, error |-> r.error]

\* handleScan: the result message; the catch block turns a throw into data
handleScan(sigs, maxB, message, f) ==
  LET r == ScanCore(sigs, maxB, message.size, f)
  IN IF r.error # NoError
     THEN [type |-> "result", path |-> message.path, bytesRead |-> 0,
           matches |-> <<>>, error |-> r.error]
     ELSE [type |-> "result", path |-> message.path, bytesRead |-> r.bytesRead,
           matches |-> r.matches, error |-> NoError]

(* ====================== the scanned tree and the pack =================== *)
Sig(id, globs, strings, regexes, hashes, packages) ==
  [id |-> id, title |-> "t-" \o id, severity |-> "high", description |-> "d-" \o id,
   globs |-> globs, strings |-> strings, regexes |-> regexes, hashes |-> hashes,
   packages |-> packages]

File(path, exists, bytes, chunk, readError, hashError, json) ==
  [path |-> path, exists |-> exists, bytes |-> bytes, chunk |-> chunk,
   readError |-> readError, hashError |-> hashError, json |-> json]

LockDoc(packages, dependencies) ==
  [valid |-> TRUE, packages |-> packages, dependencies |-> dependencies]

PkgValue(name, version) ==
  [kind |-> "object", name |-> name, version |-> version, dependencies |-> <<>>]

LockGlob == <<"*", "*", "/", "package-lock.json">>
JsGlob == <<"*", "*", "/", "*", ".js">>
BinGlob == <<"*", "*", "/", "*", ".bin">>

LeftPad == [name |-> "left-pad", version |-> "1.3.37"]
EvilPkg == [name |-> "evil-pkg", version |-> "1.0.0"]

\* a lockfile that pins both compromised pairs, left-pad twice
TwoPinsDoc ==
  LockDoc(<< [key |-> <<>>, value |-> PkgValue("root", "0.0.1")],
             [key |-> <<"node_modules/", "left-pad">>,
              value |-> PkgValue(Absent, "1.3.37")],
             [key |-> <<"node_modules/", "a", "node_modules/", "evil-pkg">>,
              value |-> PkgValue(Absent, "1.0.0")] >>,
          << [name |-> "left-pad",
              value |-> [kind |-> "object", name |-> Absent, version |-> "1.3.37",
                         dependencies |->
                           << [name |-> "safe",
                               value |-> [kind |-> "string", str |-> "2.0.0"]] >>]] >>)

OnePinDoc ==
  LockDoc(<< [key |-> <<"node_modules/", "left-pad">>,
              value |-> PkgValue(Absent, "1.3.37")] >>, <<>>)

\* a lockfile that pins left-pad at a version that is not compromised, in the
\* map and in the tree, and at the compromised one deeper in the tree, and
\* evil-pkg 1.0.0 under an alias and 2.0.0 as a string
OtherVersionDoc ==
  LockDoc(<< [key |-> <<"node_modules/", "left-pad">>,
              value |-> PkgValue(Absent, "1.3.36")],
             [key |-> <<"node_modules/", "alias">>,
              value |-> PkgValue("evil-pkg", "1.0.0")] >>,
          << [name |-> "left-pad",
              value |-> [kind |-> "object", name |-> Absent, version |-> "1.3.36",
                         dependencies |->
                           << [name |-> "evil-pkg",
                               value |-> [kind |-> "string", str |-> "2.0.0"]],
                              [name |-> "left-pad",
                               value |-> [kind |-> "string", str |-> "1.3.37"]] >>]] >>)

FileShrinkwrap ==
  File(<<"a", "/", "npm-shrinkwrap.json">>, TRUE, <<"{lock}", "{more}">>, 1,
       NoError, NoError, OtherVersionDoc)

FileEvilJs ==
  File(<<"a", "/", "x", ".js">>, TRUE, <<"an", "EVIL", "line">>, 1,
       NoError, NoError, InvalidJson)
FileGone ==
  File(<<"a", "/", "gone", ".js">>, FALSE, <<"ok">>, 1, NoError, NoError, InvalidJson)
FileManifest ==
  File(<<"a", "/", "pack.json">>, TRUE, <<"{pack}">>, 1, NoError, NoError, InvalidJson)
FileLocked ==
  File(<<"a", "/", "locked", ".js">>, TRUE, <<"ok">>, 1, "EACCES", "EACCES",
       InvalidJson)
FileLock ==
  File(<<"a", "/", "package-lock.json">>, TRUE, <<"{lock}">>, 1, NoError, NoError,
       OnePinDoc)
FileVanish ==
  File(<<"a", "/", "vanish", ".bin">>, TRUE, <<"ok">>, 1, NoError, "File not found",
       InvalidJson)
\* a shrinkwrap file that is no JSON and holds the text left-pad@1.3.37
FileBrokenLock ==
  File(<<"b", "/", "npm-shrinkwrap.json">>, TRUE,
       <<"{", "left-pad", "@", "1.3.37">>, 1, NoError, NoError, InvalidJson)
FileClean ==
  File(<<"a", "/", "clean", ".js">>, TRUE, <<"ok">>, 1, NoError, NoError, InvalidJson)

\* the compiled signature set handed to the pool
PoolSignatures ==
  << Sig("sig-str", <<>>, << <<"evil">> >>, <<>>, <<>>, <<>>),
     Sig("sig-bin", <<BinGlob>>, <<>>, <<>>, <<>>, <<>>),
     Sig("sig-hash", <<>>, <<>>, <<>>, <<Sha256(<<"bad">>)>>, <<>>),
     Sig("pack:compromised-packages", <<LockGlob>>, <<>>, <<>>, <<>>, <<LeftPad>>) >>

\* the files the walker finds, by walk order
Tree ==
  <<FileEvilJs, FileGone, FileManifest, FileLocked, FileLock, FileVanish, FileClean>>

FileAt(p) == Tree[((p - 1) % Len(Tree)) + 1]

(* ============================ index.ts: WorkerPool ====================== *)
\* a faulty dispatch that reads the head of the queue without the shift() of
\* line 113
RECURSIVE DispatchFrom_NoShift(_, _)
DispatchFrom_NoShift(i, pool) ==
  IF i > Len(pool.workers) THEN pool
  ELSE IF pool.workers[i].busy THEN DispatchFrom_NoShift(i + 1, pool)
  ELSE IF pool.queue = <<>> THEN pool
  ELSE LET job == Head(pool.queue)
       IN DispatchFrom_NoShift(i + 1,
            [workers |-> [pool.workers EXCEPT ![i] = [busy |-> TRUE, currentJob |-> job]],
             queue |-> pool.queue,
             posted |-> Append(pool.posted,
                          [to |-> i, type |-> "scan", path |-> job,
                           size |-> Len(FileAt(job).bytes)])])

\* lines 110-119; the pool is [workers, queue, posted]
RECURSIVE DispatchFrom(_, _)
DispatchFrom(i, pool) ==
  IF i > Len(pool.workers) THEN pool
  ELSE IF pool.workers[i].busy THEN DispatchFrom(i + 1, pool)
  ELSE IF pool.queue = <<>> THEN pool
  ELSE LET job == Head(pool.queue)
       IN DispatchFrom(i + 1,
            [workers |-> [pool.workers EXCEPT ![i] = [busy |-> TRUE, currentJob |-> job]],
             queue |-> Tail(pool.queue),
             posted |-> Append(pool.posted,
                          [to |-> i, type |-> "scan", path |-> job,
                           size |-> Len(FileAt(job).bytes)])])

\* a faulty dispatch that leaves out the busy test of line 112: the head of the
\* queue goes to the first worker whatever it is doing
dispatch_IgnoreBusy(pool) ==
  IF pool.queue = <<>> THEN pool
  ELSE [workers |-> [pool.workers EXCEPT
                       ![1] = [busy |-> TRUE, currentJob |-> Head(pool.queue)]],
        queue |-> Tail(pool.queue),
        posted |-> Append(pool.posted,
                     [to |-> 1, type |-> "scan", path |-> Head(pool.queue),
                      size |-> Len(FileAt(Head(pool.queue)).bytes)])]

dispatch(pool) == DispatchFrom(1, pool)

\* a faulty submit that puts the job at the head of the queue (unshift for the
\* push of line 106)
submit_Unshift(pool, job) == dispatch([pool EXCEPT !.queue = <<job>> \o @])

\* a faulty submit that only pushes, without the dispatch() of line 107
submit_NoDispatch(pool, job) == [pool EXCEPT !.queue = Append(@, job)]

\* lines 105-108
submit(pool, job) == dispatch([pool EXCEPT !.queue = Append(@, job)])

queueSize(pool) == Len(pool.queue)

busyCount(pool) == Cardinality({i \in DOMAIN pool.workers : pool.workers[i].busy})

ThePool == [workers |-> workers, queue |-> queue, posted |-> posted]

\* the messages posted to worker w, in order
Inbox(w) == SelectSeq(posted, LAMBDA m : m.to = w)

\* lines 126 and 131: the test of one record's latch in drain()
DrainReady(pool, w) == ~pool.workers[w].busy /\ pool.queue = <<>>

\* lines 121-141: the latches right after the call of drain()
DrainLatches(pool) ==
  [w \in DOMAIN pool.workers |->
     IF DrainReady(pool, w) THEN "resolved" ELSE "polling"]

AllResolved(latch) == \A w \in DOMAIN latch : latch[w] = "resolved"

\* lines 143-147
terminate(pool) ==
  [pool EXCEPT !.posted =
     @ \o [w \in DOMAIN pool.workers |->
             [to |-> w, type |-> "shutdown", path |-> NoJob, size |-> 0]]]

(* =============================== index.ts: scan ========================= *)
\* signatures/index.ts line 571: the pack loadSignatures returns, by property;
\* sourcePaths holds the path of the manifest
signaturePack ==
  [sourcePaths |-> <<SignatureSource>>, signatures |-> PoolSignatures,
   summary |-> "summary"]

\* the read of a property of an object: <<>> is undefined
Property(object, name) == IF name \in DOMAIN object THEN <<object[name]>> ELSE <<>>

\* line 204: signaturePack.sourcePath
signatureSource == Property(signaturePack, "sourcePath")

\* line 215
maxQueue == threads * 4

\* a faulty cap test, > for the >= of line 276
AtCap_Strict(pend) == Cardinality(pend) > maxQueue

\* line 276: the test that makes scan() wait for a pending job
AtCap(pend) == Cardinality(pend) >= maxQueue

ToDetection(result, match) ==
  [path |-> result.path, signatureId |-> match.signatureId,
   severity |-> match.severity, title |-> match.title,
   description |-> match.description, indicatorType |-> match.indicatorType,
   indicatorValue |-> match.indicatorValue]

\* a resolve callback that keeps the matches of a result only when no job is
\* waiting in the queue
ResolveCallback_DropWhenQueued(sc, result, pool) ==
  LET sc1 ==
        IF result.error # NoError
        THEN [sc EXCEPT !.errors = Append(@, [path |-> result.path,
                                               error |-> result.error]),
                        !.metrics.errors = @ + 1]
        ELSE [sc EXCEPT
                !.metrics.filesScanned = @ + 1,
                !.metrics.bytesScanned = @ + result.bytesRead,
                !.metrics.matches = @ + Len(result.matches),
                !.detections = IF pool.queue # <<>> THEN @
                               ELSE @ \o [i \in DOMAIN result.matches |->
                                            ToDetection(result, result.matches[i])]]
  IN [sc1 EXCEPT !.metrics.queueDepth = queueSize(pool),
                 !.metrics.workersBusy = busyCount(pool)]

\* a resolve callback that counts the file before it looks at result.error
ResolveCallback_CountsFailedFile(sc, result, pool) ==
  LET sc1 ==
        IF result.error # NoError
        THEN [sc EXCEPT !.errors = Append(@, [path |-> result.path,
                                               error |-> result.error]),
                        !.metrics.errors = @ + 1,
                        !.metrics.filesScanned = @ + 1]
        ELSE [sc EXCEPT
                !.metrics.filesScanned = @ + 1,
                !.metrics.bytesScanned = @ + result.bytesRead,
                !.metrics.matches = @ + Len(result.matches),
                !.detections = @ \o [i \in DOMAIN result.matches |->
                                       ToDetection(result, result.matches[i])]]
  IN [sc1 EXCEPT !.metrics.queueDepth = queueSize(pool),
                 !.metrics.workersBusy = busyCount(pool)]

\* lines 233-261: the job's resolve callback, run inside worker.onmessage before
\* dispatch(); sc = [errors, detections, metrics]
ResolveCallback(sc, result, pool) ==
  LET sc1 ==
        IF result.error # NoError
        THEN [sc EXCEPT !.errors = Append(@, [path |-> result.path,
                                               error |-> result.error]),
                        !.metrics.errors = @ + 1]
        ELSE [sc EXCEPT
                !.metrics.filesScanned = @ + 1,
                !.metrics.bytesScanned = @ + result.bytesRead,
                !.metrics.matches = @ + Len(result.matches),
                !.detections = @ \o [i \in DOMAIN result.matches |->
                                       ToDetection(result, result.matches[i])]]
  IN [sc1 EXCEPT !.metrics.queueDepth = queueSize(pool),
                 !.metrics.workersBusy = busyCount(pool)]

\* lines 265-272: the catch handler of the jobPromise, a microtask that runs
\* after worker.onerror has returned
CatchHandler(sc, path, reason, pool) ==
  [sc EXCEPT !.errors = Append(@, [path |-> path, error |-> reason]),
             !.metrics.errors = @ + 1,
             !.metrics.queueDepth = queueSize(pool),
             !.metrics.workersBusy = busyCount(pool)]

TheScan == [errors |-> errors, detections |-> detections, metrics |-> metrics]

\* lines 287-288: drain(), and terminate() once drain() has resolved
FinishScan(pool) ==
  LET latch == DrainLatches(pool)
  IN IF AllResolved(latch)
     THEN [pool |-> terminate(pool), latch |-> latch, dstate |-> "resolved",
           pc |-> "done"]
     ELSE [pool |-> pool, latch |-> latch, dstate |-> "waiting", pc |-> "drain"]

\* lines 276-286: scan() resumed by the settlement of a pending jobPromise;
\* rejected: the race it awaits rejects and the await throws
ResumeScan(rejected, pool, m, pend) ==
  LET same == [pool |-> pool, latch |-> drainLatch, dstate |-> drainState,
               pc |-> pc, metrics |-> m]
  IN IF pc \notin {"raceCap", "raceFinal"} THEN same
     ELSE IF rejected THEN [same EXCEPT !.pc = "thrown"]
     ELSE IF pc = "raceCap"
     THEN [same EXCEPT !.pc = "walking",
                       !.metrics.queueDepth = queueSize(pool),
                       !.metrics.workersBusy = busyCount(pool)]
     ELSE IF pend # {} THEN same
     ELSE LET fin == FinishScan(pool)
          IN [pool |-> fin.pool, latch |-> fin.latch, dstate |-> fin.dstate,
              pc |-> fin.pc, metrics |-> m]

SetPool(pool) ==
  /\ workers' = pool.workers
  /\ queue' = pool.queue
  /\ posted' = pool.posted

SetResumed(r) ==
  /\ SetPool(r.pool)
  /\ drainLatch' = r.latch
  /\ drainState' = r.dstate
  /\ pc' = r.pc
  /\ metrics' = r.metrics

\* an onmessage handler without the dispatch() of line 91
OnMessage_NoDispatch(w) ==
  /\ outbox[w] # <<>>
  /\ Head(outbox[w]).type = "result"
  /\ outbox' = [outbox EXCEPT ![w] = Tail(@)]
  /\ LET data == Head(outbox[w])
         job == workers[w].currentJob
         pool1 == [ThePool EXCEPT !.workers[w] = [busy |-> FALSE, currentJob |-> NoJob]]
     IN IF job = NoJob
        THEN /\ SetPool(pool1)
             /\ UNCHANGED <<promise, pending, detections, errors, metrics, pc,
                            drainLatch, drainState>>
        ELSE LET sc == ResolveCallback(TheScan, data, pool1)
                 pool2 == pool1
                 pend == pending \ {job}
             IN /\ promise' = [promise EXCEPT ![job] = "fulfilled"]
                /\ pending' = pend
                /\ errors' = sc.errors
                /\ detections' = sc.detections
                /\ SetResumed(ResumeScan(FALSE, pool2, sc.metrics, pend))
  /\ UNCHANGED <<pkgs, gl, cli, boot, mt, ld, wlk, threads, taken, wk, nextEntry, walkErrs, faults>>

\* lines 85-92: worker.onmessage
OnMessage(w) ==
  /\ outbox[w] # <<>>
  /\ Head(outbox[w]).type = "result"
  /\ outbox' = [outbox EXCEPT ![w] = Tail(@)]
  /\ LET data == Head(outbox[w])
         job == workers[w].currentJob
         pool1 == [ThePool EXCEPT !.workers[w] = [busy |-> FALSE, currentJob |-> NoJob]]
     IN IF job = NoJob
        THEN /\ SetPool(pool1)
             /\ UNCHANGED <<promise, pending, detections, errors, metrics, pc,
                            drainLatch, drainState>>
        ELSE LET sc == ResolveCallback(TheScan, data, pool1)
                 pool2 == dispatch(pool1)
                 pend == pending \ {job}
             IN /\ promise' = [promise EXCEPT ![job] = "fulfilled"]
                /\ pending' = pend
                /\ errors' = sc.errors
                /\ detections' = sc.detections
                /\ SetResumed(ResumeScan(FALSE, pool2, sc.metrics, pend))
  /\ UNCHANGED <<pkgs, gl, cli, boot, mt, ld, wlk, threads, taken, wk, nextEntry, walkErrs, faults>>

\* an onerror handler without the dispatch() of line 100
OnError_NoDispatch(w) ==
  /\ outbox[w] # <<>>
  /\ Head(outbox[w]).type = "error"
  /\ outbox' = [outbox EXCEPT ![w] = Tail(@)]
  /\ LET job == workers[w].currentJob
         pool1 == [ThePool EXCEPT !.workers[w] = [busy |-> FALSE, currentJob |-> NoJob]]
     IN IF job = NoJob
        THEN /\ SetPool(pool1)
             /\ UNCHANGED <<promise, pending, detections, errors, metrics, pc,
                            drainLatch, drainState>>
        ELSE LET sc == CatchHandler(TheScan, job, Head(outbox[w]).error, pool1)
                 pend == pending \ {job}
             IN /\ promise' = [promise EXCEPT ![job] = "rejected"]
                /\ pending' = pend
                /\ errors' = sc.errors
                /\ detections' = sc.detections
                /\ SetResumed(ResumeScan(TRUE, pool1, sc.metrics, pend))
  /\ UNCHANGED <<pkgs, gl, cli, boot, mt, ld, wlk, threads, taken, wk, nextEntry, walkErrs, faults>>

\* lines 93-101: worker.onerror
OnError(w) ==
  /\ outbox[w] # <<>>
  /\ Head(outbox[w]).type = "error"
  /\ outbox' = [outbox EXCEPT ![w] = Tail(@)]
  /\ LET job == workers[w].currentJob
         pool1 == [ThePool EXCEPT !.workers[w] = [busy |-> FALSE, currentJob |-> NoJob]]
         pool2 == dispatch(pool1)
     IN IF job = NoJob
        THEN /\ SetPool(pool2)
             /\ UNCHANGED <<promise, pending, detections, errors, metrics, pc,
                            drainLatch, drainState>>
        ELSE LET sc == CatchHandler(TheScan, job, Head(outbox[w]).error, pool2)
                 pend == pending \ {job}
             IN /\ promise' = [promise EXCEPT ![job] = "rejected"]
                /\ pending' = pend
                /\ errors' = sc.errors
                /\ detections' = sc.detections
                /\ SetResumed(ResumeScan(TRUE, pool2, sc.metrics, pend))
  /\ UNCHANGED <<pkgs, gl, cli, boot, mt, ld, wlk, threads, taken, wk, nextEntry, walkErrs, faults>>

\* lines 230-274: one file entry becomes a job; sc as above
\* (the promise is created pending and added to the pending set)
SubmitEntry(path) ==
  /\ promise' = [promise EXCEPT ![path] = "pending"]
  /\ pending' = pending \cup {path}
  /\ SetPool(submit(ThePool, path))

\* lines 217-282: one iteration of the for-await loop, on the entry walkPaths
\* yields next (a file with its size, or a path with an error)
WalkerYield ==
  /\ pc = "walking"
  /\ nextEntry <= NumFiles
  /\ nextEntry' = nextEntry + 1
  /\ \E kind \in {"file", "error"} :
       IF kind = "error"
       THEN /\ walkErrs < MaxWalkErrors
            /\ walkErrs' = walkErrs + 1
            /\ errors' = Append(errors, [path |-> nextEntry, error |-> "EIO"])
            /\ metrics' = [metrics EXCEPT !.errors = @ + 1]
            /\ UNCHANGED <<workers, queue, posted, promise, pending, pc>>
       ELSE IF <<nextEntry>> = signatureSource
       THEN UNCHANGED <<workers, queue, posted, promise, pending, pc, walkErrs,
                        errors, metrics>>
       ELSE /\ SubmitEntry(nextEntry)
            /\ IF AtCap(pending')
               THEN pc' = "raceCap" /\ UNCHANGED metrics
               ELSE /\ pc' = pc
                    /\ metrics' = [metrics EXCEPT
                         !.queueDepth = Len(queue'),
                         !.workersBusy =
                           Cardinality({i \in DOMAIN workers' : workers'[i].busy})]
            /\ UNCHANGED <<walkErrs, errors>>
  /\ UNCHANGED <<pkgs, gl, cli, boot, mt, ld, wlk, threads, taken, wk, outbox, detections, drainLatch, drainState,
                 faults>>

\* a faulty end of the walk that leaves out the loop of lines 284-286 and
\* calls drain() whatever is pending
WalkerEnd_NoWait ==
  /\ pc = "walking"
  /\ nextEntry > NumFiles
  /\ LET fin == FinishScan(ThePool)
     IN /\ SetPool(fin.pool)
        /\ drainLatch' = fin.latch
        /\ drainState' = fin.dstate
        /\ pc' = fin.pc
  /\ UNCHANGED <<pkgs, gl, cli, boot, mt, ld, wlk, threads, taken, wk, outbox, promise, pending, detections, errors,
                 metrics, nextEntry, walkErrs, faults>>

\* lines 284-288: the walk has ended
WalkerEnd ==
  /\ pc = "walking"
  /\ nextEntry > NumFiles
  /\ IF pending # {}
     THEN /\ pc' = "raceFinal"
          /\ UNCHANGED <<workers, queue, posted, drainLatch, drainState>>
     ELSE LET fin == FinishScan(ThePool)
          IN /\ SetPool(fin.pool)
             /\ drainLatch' = fin.latch
             /\ drainState' = fin.dstate
             /\ pc' = fin.pc
  /\ UNCHANGED <<pkgs, gl, cli, boot, mt, ld, wlk, threads, taken, wk, outbox, promise, pending, detections, errors,
                 metrics, nextEntry, walkErrs, faults>>

\* lines 130-137: a record's check() run by its timer; a failed check only
\* re-arms the timer. The last latch resolves drain(), and scan() goes on to
\* terminate() (line 288)
DrainTimer(w) ==
  /\ drainState = "waiting"
  /\ drainLatch[w] = "polling"
  /\ DrainReady(ThePool, w)
  /\ drainLatch' = [drainLatch EXCEPT ![w] = "resolved"]
  /\ IF AllResolved(drainLatch')
     THEN /\ drainState' = "resolved"
          /\ IF pc = "drain"
             THEN pc' = "done" /\ SetPool(terminate(ThePool))
             ELSE UNCHANGED <<pc, workers, queue, posted>>
     ELSE UNCHANGED <<drainState, pc, workers, queue, posted>>
  /\ UNCHANGED <<pkgs, gl, cli, boot, mt, ld, wlk, threads, taken, wk, outbox, promise, pending, detections, errors,
                 metrics, nextEntry, walkErrs, faults>>

(* ============================ worker.ts: the worker ===================== *)
\* a worker whose init branch stores nothing
WorkerReceive_InitIgnored(w) ==
  /\ wk[w].status = "alive"
  /\ taken[w] < Len(Inbox(w))
  /\ taken' = [taken EXCEPT ![w] = @ + 1]
  /\ LET message == Inbox(w)[taken[w] + 1]
     IN wk' = [wk EXCEPT ![w] =
          CASE message.type = "init" ->
                 @
            [] message.type = "scan" ->
                 [@ EXCEPT !.active = @ \cup {[path |-> message.path,
                                                size |-> message.size]}]
            [] message.type = "shutdown" ->
                 [@ EXCEPT !.status = "closed", !.active = {}]]
  /\ UNCHANGED <<pkgs, gl, cli, boot, mt, ld, wlk, threads, workers, queue, posted, outbox, promise, pending,
                 detections, errors, metrics, pc, nextEntry, walkErrs, drainLatch,
                 drainState, faults>>

\* lines 249-264: self.onmessage takes the next message. A scan starts
\* handleScan, which suspends at its first await; shutdown closes the worker
\* and with it the scans still suspended.
WorkerReceive(w) ==
  /\ wk[w].status = "alive"
  /\ taken[w] < Len(Inbox(w))
  /\ taken' = [taken EXCEPT ![w] = @ + 1]
  /\ LET message == Inbox(w)[taken[w] + 1]
     IN wk' = [wk EXCEPT ![w] =
          CASE message.type = "init" ->
                 [@ EXCEPT !.signatures = PoolSignatures, !.maxBytes = MaxBytes]
            [] message.type = "scan" ->
                 [@ EXCEPT !.active = @ \cup {[path |-> message.path,
                                                size |-> message.size]}]
            [] message.type = "shutdown" ->
                 [@ EXCEPT !.status = "closed", !.active = {}]]
  /\ UNCHANGED <<pkgs, gl, cli, boot, mt, ld, wlk, threads, workers, queue, posted, outbox, promise, pending,
                 detections, errors, metrics, pc, nextEntry, walkErrs, drainLatch,
                 drainState, faults>>

\* line 258: handleScan has returned and its result is posted
WorkerFinish(w) ==
  /\ wk[w].status = "alive"
  /\ \E message \in wk[w].active :
       /\ wk' = [wk EXCEPT ![w].active = @ \ {message}]
       /\ outbox' = [outbox EXCEPT ![w] =
            Append(@, handleScan(wk[w].signatures, wk[w].maxBytes, message,
                                 FileAt(message.path)))]
  /\ UNCHANGED <<pkgs, gl, cli, boot, mt, ld, wlk, threads, workers, queue, posted, taken, promise, pending,
                 detections, errors, metrics, pc, nextEntry, walkErrs, drainLatch,
                 drainState, faults>>

\* an uncaught error ends the worker; the pool is told by an error event
WorkerFault(w) ==
  /\ wk[w].status = "alive"
  /\ faults < MaxFaults
  /\ faults' = faults + 1
  /\ wk' = [wk EXCEPT ![w].status = "dead", ![w].active = {}]
  /\ outbox' = [outbox EXCEPT ![w] = Append(@, [type |-> "error", error |-> "crash"])]
  /\ UNCHANGED <<pkgs, gl, cli, boot, mt, ld, wlk, threads, workers, queue, posted, taken, promise, pending,
                 detections, errors, metrics, pc, nextEntry, walkErrs, drainLatch,
                 drainState>>

(* ===================== a caller of the pool other than scan ============= *)
\* submit() of a job built as scan() builds it (lines 230-274)
ClientSubmit ==
  /\ pc = "client"
  /\ nextEntry <= MaxClientJobs
  /\ nextEntry' = nextEntry + 1
  /\ SubmitEntry(nextEntry)
  /\ UNCHANGED <<pkgs, gl, cli, boot, mt, ld, wlk, threads, taken, wk, outbox, detections, errors, metrics, pc,
                 walkErrs, drainLatch, drainState, faults>>

\* drain()
ClientDrain ==
  /\ pc = "client"
  /\ drainState = "idle"
  /\ drainLatch' = DrainLatches(ThePool)
  /\ drainState' = IF AllResolved(drainLatch') THEN "resolved" ELSE "waiting"
  /\ UNCHANGED <<pkgs, gl, cli, boot, mt, ld, wlk, threads, workers, queue, posted, taken, wk, outbox, promise,
                 pending, detections, errors, metrics, pc, nextEntry, walkErrs,
                 faults>>

ShutdownPosted == \E i \in DOMAIN posted : posted[i].type = "shutdown"

\* terminate()
ClientTerminate ==
  /\ pc = "client"
  /\ ~ShutdownPosted
  /\ SetPool(terminate(ThePool))
  /\ UNCHANGED <<pkgs, gl, cli, boot, mt, ld, wlk, threads, taken, wk, outbox, promise, pending, detections, errors,
                 metrics, pc, nextEntry, walkErrs, drainLatch, drainState, faults>>

(* ============================ specifications ============================ *)
\* the state after new WorkerPool(threads, ...) (lines 73-84, 211-215)
InitPool ==
  /\ threads \in 1..MaxThreads
  /\ workers = [w \in 1..threads |-> [busy |-> FALSE, currentJob |-> NoJob]]
  /\ queue = <<>>
  /\ posted = [w \in 1..threads |-> [to |-> w, type |-> "init", path |-> NoJob,
                                    size |-> 0]]
  /\ taken = [w \in 1..threads |-> 0]
  /\ wk = [w \in 1..threads |->
             [status |-> "alive", signatures |-> <<>>, maxBytes |-> DefaultMaxBytes,
              active |-> {}]]
  /\ outbox = [w \in 1..threads |-> <<>>]
  /\ promise = [p \in 1..(NumFiles + MaxClientJobs) |-> "none"]
  /\ pending = {}
  /\ detections = <<>>
  /\ errors = <<>>
  /\ metrics = [filesScanned |-> 0, bytesScanned |-> 0, matches |-> 0, errors |-> 0,
                queueDepth |-> 0, workersBusy |-> 0]
  /\ nextEntry = 1
  /\ walkErrs = 0
  /\ drainLatch = [w \in 1..threads |-> "none"]
  /\ drainState = "idle"
  /\ faults = 0

\* no handleScan call on its own
MtIdle == mt = [sigs |-> <<>>, maxBytes |-> 0, file |-> FileClean, result |-> <<>>]

\* no loadSignatures call; steps counts the steps of the resolution
LdIdle ==
  ld = [extends |-> <<>>, visited |-> {}, call |-> <<>>, stack |-> <<>>,
        status |-> "idle", error |-> NoError, signatures |-> <<>>, steps |-> 0]

\* no walkPaths call on its own
WlkIdle ==
  wlk = [paths |-> <<>>, maxDepth |-> <<>>, exclude |-> <<>>, failing |-> {},
         stack |-> <<>>, popped |-> <<>>, opened |-> <<>>, yielded |-> <<>>,
         status |-> "idle"]

\* no run of main()
CliIdle ==
  cli = [option |-> "scan", profileKnown |-> TRUE, clone |-> "none",
         scanThrows |-> FALSE, found |-> 0, failed |-> 0, reportThrows |-> FALSE,
         cleanupThrows |-> FALSE, summary |-> <<>>, exitCode |-> <<>>, pc |-> "idle"]

\* no call of scan() followed from its first line
BootIdle ==
  boot = [loader |-> NoError, threadsOption |-> [kind |-> "undefined", value |-> 0],
          cores |-> 1, entry |-> "none", threads |-> 0, spawned |-> 0, walked |-> 0,
          submitted |-> 0, error |-> NoError, pc |-> "idle"]

\* no loadManifest call followed from its line 385
PkIdle == pkgs = [manifest |-> <<>>, result |-> <<>>, signatures |-> <<>>, pc |-> "idle"]

\* no call of matchGlob on its own
GlIdle == gl = [targetPath |-> <<>>, globPattern |-> <<>>, result |-> <<>>, pc |-> "idle"]

Init == InitPool /\ pc = "walking" /\ MtIdle /\ LdIdle /\ WlkIdle /\ CliIdle /\ BootIdle
          /\ GlIdle
  /\ PkIdle

\* the steps of the workers and the events of the pool, for any worker
WorkerReceives == \E w \in 1..threads : WorkerReceive(w)
WorkerFinishes == \E w \in 1..threads : WorkerFinish(w)
WorkerFaults == \E w \in 1..threads : WorkerFault(w)
PoolOnMessage == \E w \in 1..threads : OnMessage(w)
PoolOnError == \E w \in 1..threads : OnError(w)
DrainTimerFires == \E w \in 1..threads : DrainTimer(w)

Next ==
  \/ WalkerYield
  \/ WalkerEnd
  \/ PoolOnMessage
  \/ PoolOnError
  \/ WorkerReceives
  \/ WorkerFinishes
  \/ WorkerFaults

Spec == Init /\ [][Next]_vars

\* scan() with workers that answer every scan message they receive: no worker
\* faults, and no step that can be taken is put off for ever (the event loop
\* of the main thread runs every task it has queued, a worker takes each
\* message of its inbox and each handleScan call returns)
NextAnswering ==
  \/ WalkerYield
  \/ WalkerEnd
  \/ PoolOnMessage
  \/ WorkerReceives
  \/ WorkerFinishes

SpecAnswering == Init /\ [][NextAnswering]_vars

\* the pool under any caller: submit, drain and terminate in any order
InitClient ==
  InitPool /\ pc = "client" /\ MtIdle /\ LdIdle /\ WlkIdle /\ CliIdle /\ BootIdle
          /\ GlIdle
  /\ PkIdle

NextPool ==
  \/ ClientSubmit
  \/ ClientDrain
  \/ ClientTerminate
  \/ DrainTimerFires
  \/ PoolOnMessage
  \/ PoolOnError
  \/ WorkerReceives
  \/ WorkerFinishes
  \/ WorkerFaults

SpecPool == InitClient /\ [][NextPool]_vars

(* ================= handleScan on its own: inputs and step =============== *)
MaxSigs == 2              \* signatures per compiled set

\* signatures to draw compiled sets from; ids are unique, as after dedupeByKey
SigCatalogue ==
  << Sig("c-str", <<>>, << <<"evil">> >>, <<>>, <<>>, <<>>),
     Sig("c-js", <<JsGlob>>, <<>>, <<>>, <<>>, <<>>),
     Sig("c-all", <<JsGlob, <<"*", "*">> >>, << <<"evil">>, <<"line">> >>,
         << [source |-> <<"an", "EVIL">>] >>,
         << Sha256(<<"an", "EVIL", "line">>) >>, <<>>),
     Sig("c-re", <<BinGlob>>, <<>>, << [source |-> <<"LINE">>] >>,
         << Sha256(<<"a", "line">>) >>, <<>>),
     Sig("c-hash", <<>>, <<>>, <<>>,
         << Sha256(<<"an", "EVIL", "line">>), Sha256(<<"ok">>) >>, <<>>),
     Sig("c-pkgs", <<LockGlob, <<"*", "*", "/", "yarn.lock">> >>, <<>>, <<>>, <<>>,
         <<LeftPad, EvilPkg>>),
     Sig("c-mixed", <<>>, << <<"{lock}">> >>, <<>>, <<>>, <<LeftPad>>),
     Sig("c-globs", <<LockGlob, BinGlob, <<"*", "*">> >>, <<>>, <<>>, <<>>, <<>>) >>

\* every sequence of 1..MaxSigs distinct catalogue entries
RECURSIVE SigSeqs(_)
SigSeqs(n) ==
  IF n = 0 THEN {<<>>}
  ELSE LET shorter == SigSeqs(n - 1)
       IN shorter \cup
          {Append(q, SigCatalogue[i]) :
             q \in {x \in shorter : Len(x) = n - 1}, i \in DOMAIN SigCatalogue}

SigSets ==
  {q \in SigSeqs(MaxSigs) :
     q # <<>> /\ \A i, j \in DOMAIN q : i # j => q[i].id # q[j].id}

FileSet ==
  { FileEvilJs, FileGone, FileLocked, FileLock, FileVanish, FileClean, FileShrinkwrap,
    FileBrokenLock,
    File(<<"a", "/", "my-", "package-lock.json">>, TRUE, <<"{lock}">>, 1,
         NoError, NoError, TwoPinsDoc),
    File(<<"A", "/", "PACKAGE-LOCK.JSON">>, TRUE, <<"{lock}">>, 1,
         NoError, NoError, TwoPinsDoc),
    File(<<"a", "/", "package-lock.json">>, TRUE, <<"{", "broken">>, 1,
         NoError, NoError, InvalidJson),
    File(<<"a", "/", "yarn.lock">>, TRUE,
         <<"left-pad", "@", "1.3.37", "evil-pkg", "@", "1.0.0">>, 2,
         NoError, NoError, InvalidJson),
    File(<<"a", "/", "b", ".bin">>, TRUE, <<"a", "line">>, 2,
         NoError, NoError, InvalidJson),
    File(<<"a", "/", "big", ".js">>, TRUE, <<"an", "EVIL", "line">>, 2,
         NoError, "EIO", InvalidJson),
    File(<<"a", "/", "empty", ".js">>, TRUE, <<>>, 1, NoError, NoError, InvalidJson) }

NoResult == <<>>

InitMatch ==
  /\ InitPool
  /\ pc = "match"
  /\ LdIdle
  /\ WlkIdle
  /\ GlIdle
  /\ PkIdle
  /\ CliIdle
  /\ BootIdle
  /\ \E sigs \in SigSets, f \in FileSet, maxB \in 1..MaxBytes :
       mt = [sigs |-> sigs, maxBytes |-> maxB, file |-> f, result |-> NoResult]

\* worker.ts line 258: one scan message handled by an initialised worker
ScanFile ==
  /\ pc = "match"
  /\ mt.result = NoResult
  /\ mt' = [mt EXCEPT !.result =
       <<handleScan(mt.sigs, mt.maxBytes,
                    [path |-> mt.file.path, size |-> Len(mt.file.bytes)], mt.file)>>]
  /\ UNCHANGED <<pkgs, gl, cli, boot, ld, wlk, threads, workers, queue, posted, taken, wk, outbox,
                 promise, pending, detections, errors, metrics, pc, nextEntry,
                 walkErrs, drainLatch, drainState, faults>>

NextMatch == ScanFile

SpecMatch == InitMatch /\ [][NextMatch]_vars

(* =================== signatures/index.ts: the pack loader =============== *)
MaxExtends == 2           \* entries of one manifest's extends list

\* paths are sequences of segments below the file-system root; the process
\* runs in the root directory
Cwd == <<>>

\* path.resolve on segments: "." is dropped, ".." removes the segment before it
RECURSIVE Normalize(_)
Normalize(segs) ==
  IF segs = <<>> THEN <<>>
  ELSE LET before == Normalize(SubSeq(segs, 1, Len(segs) - 1))
           last == segs[Len(segs)]
       IN IF last = "." THEN before
          ELSE IF last = ".."
            THEN IF before = <<>> THEN <<>> ELSE SubSeq(before, 1, Len(before) - 1)
          ELSE Append(before, last)

PathResolve(base, rel) == Normalize(base \o rel)

Dirname(p) == SubSeq(p, 1, Len(p) - 1)

LatestPath == <<"packs", "latest", "pack.json">>
ShaiHuludPath == <<"packs", "shai-hulud", "pack.json">>
CustomPath == <<"custom.json">>
\* a pack of the packs directory that is no profile and extends nothing
BasePath == <<"packs", "base", "pack.json">>

\* registry.ts: the built-in profiles
profiles ==
  << [id |-> "latest", manifestPath |-> LatestPath,
      aliases |-> <<"default", "rolling">>],
     [id |-> "shai-hulud", manifestPath |-> ShaiHuludPath,
      aliases |-> <<"shai", "shai-hulud-fast">>] >>

\* getProfile: by id or alias, case-insensitive; a reference of several
\* segments is no profile name
getProfile(ref) ==
  IF Len(ref) # 1 THEN <<>>
  ELSE LET normalized == LowerAtom(ref[1])
       IN Find(profiles,
               {i \in DOMAIN profiles :
                  \/ LowerAtom(profiles[i].id) = normalized
                  \/ \E a \in DOMAIN profiles[i].aliases :
                       LowerAtom(profiles[i].aliases[a]) = normalized})

\* the references a manifest's extends list is drawn from: a profile id in
\* another case, an alias, and three relative paths
ExtendRefs ==
  { <<"Latest">>, <<"shai">>, <<"..", "shai-hulud", "pack.json">>,
    <<"..", "..", "custom.json">>, <<"..", "base", "pack.json">> }

\* loadManifest, lines 367-370: where an extends entry of the manifest at
\* absolute points
ExtendPath(absolute, extendRef) ==
  LET extendProfile == getProfile(extendRef)
  IN IF extendProfile # <<>> THEN extendProfile[1].manifestPath
     ELSE PathResolve(Dirname(absolute), extendRef)

RawSignature(id, pack, indicators) ==
  [id |-> id, title |-> pack \o " " \o id, severity |-> "high",
   description |-> "d-" \o id, indicators |-> indicators]

StringIndicator(value) == [type |-> "string", value |-> value]
RegexIndicator(value) == [type |-> "regex", value |-> value]
GlobIndicator(pattern) == [type |-> "glob", pattern |-> pattern]
HashIndicator(value) == [type |-> "sha256", value |-> value]
PackageIndicator(name, version) == [type |-> "package", name |-> name, version |-> version]

(* ---------- loadCompromisedPackages and the signature made of it -------- *)
(* A raw package entry is [kind, name, version, versions]: kind "object" or  *)
(* "other" (null, a number, a string), name and version a string or Absent,  *)
(* versions <<>> (no array) or <<items>>, an item a string or Absent. A raw   *)
(* list is <<>> (no array) or <<entries>>.                                   *)

\* String.prototype.trim on the version strings of the model
TrimAtom(a) ==
  CASE a = " 1 " -> "1"
    [] a = "1 " -> "1"
    [] a = " 2" -> "2"
    [] a = "  " -> ""
    [] a = " 1.0.0 " -> "1.0.0"
    [] OTHER -> a

\* line 143
canonicalizeVersion(version) == TrimAtom(version)

RawPackage(name, version, versions) ==
  [kind |-> "object", name |-> name, version |-> version, versions |-> versions]

NotAnObject == [kind |-> "other", name |-> Absent, version |-> Absent, versions |-> <<>>]

\* lines 209-221 and 235-247: the version strings of one raw entry, the single
\* one first
VersionStrings(pkg) ==
  (IF pkg.version # Absent THEN <<pkg.version>> ELSE <<>>)
  \o (IF pkg.versions # <<>>
        THEN SelectSeq(pkg.versions[1], LAMBDA version : version # Absent)
      ELSE <<>>)

\* lines 204-227 and 230-253: the entries one raw entry contributes
EntriesOfPackage(pkg) ==
  IF pkg.kind # "object" \/ pkg.name = Absent THEN <<>>
  ELSE LET versions == VersionStrings(pkg)
           trimmed == SelectSeq([i \in DOMAIN versions |-> TrimAtom(versions[i])],
                                LAMBDA version : version # "")
       IN [i \in DOMAIN trimmed |-> [name |-> pkg.name, version |-> trimmed[i]]]

EntriesOfList(list) ==
  IF list = <<>> THEN <<>>
  ELSE Flatten([i \in DOMAIN list[1] |-> EntriesOfPackage(list[1][i])])

\* a normalization that keeps every entry
NormalizeEntries_NoDedupe(entries) ==
  SelectSeq([i \in DOMAIN entries |->
               [name |-> entries[i].name,
                version |-> canonicalizeVersion(entries[i].version)]],
            LAMBDA entry : entry.version # "")

\* lines 255-267: versions trimmed again, empty ones dropped, then dedupeByKey
\* with the key `${name}@${version}`: a key stays where it was first inserted
\* and holds the entry set last
NormalizeEntries(entries) ==
  LET normalized ==
        SelectSeq([i \in DOMAIN entries |->
                     [name |-> entries[i].name,
                      version |-> canonicalizeVersion(entries[i].version)]],
                  LAMBDA entry : entry.version # "")
      key(i) == normalized[i].name \o "@" \o normalized[i].version
      firsts == {i \in DOMAIN normalized : \A j \in 1..(i - 1) : key(j) # key(i)}
      nth(n) == CHOOSE i \in firsts : Cardinality({j \in firsts : j < i}) = n - 1
      last(i) == CHOOSE j \in DOMAIN normalized :
                   /\ key(j) = key(i)
                   /\ \A k \in DOMAIN normalized : key(k) = key(i) => k <= j
  IN [n \in 1..Cardinality(firsts) |-> normalized[last(nth(n))]]

ReadError == "ENOENT"
ParseError == "SyntaxError"

\* loadCompromisedPackages, lines 190-270. The manifest names a packages file
\* (compromisedPackagesFile = <<file>>, file = [readable, valid, packages]) or
\* none (<<>>); a file that cannot be read or parsed throws
loadCompromisedPackages(manifest) ==
  LET named == manifest.compromisedPackagesFile # <<>>
      file == manifest.compromisedPackagesFile[1]
  IN IF named /\ ~file.readable
       THEN [entries |-> <<>>, sourceFiles |-> <<>>, error |-> ReadError]
     ELSE IF named /\ ~file.valid
       THEN [entries |-> <<>>, sourceFiles |-> <<>>, error |-> ParseError]
     ELSE [entries |-> NormalizeEntries(
                         (IF named THEN EntriesOfList(file.packages) ELSE <<>>)
                         \o EntriesOfList(manifest.compromisedPackages)),
           sourceFiles |-> IF named THEN <<"packages.json">> ELSE <<>>,
           error |-> NoError]

\* lines 121-129
DEFAULT_LOCKFILE_GLOBS ==
  << <<"*", "*", "/", "package-lock.json">>, <<"*", "*", "/", "npm-shrinkwrap.json">>,
     <<"*", "*", "/", "pnpm-lock.yaml">>, <<"*", "*", "/", "pnpm-lock.yml">>,
     <<"*", "*", "/", "yarn.lock">>, <<"*", "*", "/", "bun.lock">>,
     <<"*", "*", "/", "bun.lockb">> >>

\* path.basename(manifestPath, path.extname(manifestPath))
BasenameWithoutExt(absolute) ==
  LET base == absolute[Len(absolute)]
  IN CASE base = "custom.json" -> "custom"
       [] base = "pack.json" -> "pack"
       [] OTHER -> base

\* lines 327-340; globs is <<>> for undefined and <<list>> otherwise
defaultPackageSignature(manifest, absolute) ==
  LET manifestId == IF manifest.id # Absent THEN manifest.id
                    ELSE BasenameWithoutExt(absolute)
  IN [id |-> manifestId \o ":compromised-packages",
      title |-> "Known compromised npm packages (" \o manifestId \o ")",
      severity |-> "critical",
      description |-> "Detects dependencies pinned to compromised npm packages",
      globs |-> <<DEFAULT_LOCKFILE_GLOBS>>]

\* a loadManifest that makes the signature of every manifest
PackageSignatures_Always(manifest, absolute, entries) ==
  LET signatureMeta == defaultPackageSignature(manifest, absolute)
  IN << [id |-> signatureMeta.id, title |-> signatureMeta.title,
         severity |-> signatureMeta.severity,
         description |-> signatureMeta.description,
         indicators |->
           [i \in DOMAIN DEFAULT_LOCKFILE_GLOBS |->
              [type |-> "glob", pattern |-> DEFAULT_LOCKFILE_GLOBS[i]]]
           \o [i \in DOMAIN entries |->
                 [type |-> "package", name |-> entries[i].name,
                  version |-> entries[i].version]]] >>

\* loadManifest, lines 389-410: the signature pushed for the entries of
\* loadCompromisedPackages, none when there are no entries; the manifest's
\* compromisedPackagesSignature is <<>> or <<override>>
PackageSignatures(manifest, absolute, entries) ==
  IF entries = <<>> THEN <<>>
  ELSE LET signatureMeta ==
             IF manifest.compromisedPackagesSignature # <<>>
               THEN manifest.compromisedPackagesSignature[1]
             ELSE defaultPackageSignature(manifest, absolute)
           globs == IF signatureMeta.globs # <<>> THEN signatureMeta.globs[1]
                    ELSE DEFAULT_LOCKFILE_GLOBS
       IN << [id |-> signatureMeta.id, title |-> signatureMeta.title,
              severity |-> signatureMeta.severity,
              description |-> signatureMeta.description,
              indicators |->
                [i \in DOMAIN globs |-> [type |-> "glob", pattern |-> globs[i]]]
                \o [i \in DOMAIN entries |->
                      [type |-> "package", name |-> entries[i].name,
                       version |-> entries[i].version]]] >>

\* the manifests on disk, but for their extends lists: custom.json and
\* packs/latest both define s1; packs/shai-hulud lists compromised packages
\* and custom.json overrides the metadata of that signature
ManifestBody(p) ==
  CASE p = CustomPath ->
         [id |-> Absent, compromisedPackagesFile |-> <<>>,
          compromisedPackages |->
            << <<RawPackage(EvilPkg.name, EvilPkg.version, <<>>)>> >>,
          compromisedPackagesSignature |->
            << [id |-> "shai-hulud:compromised-packages", title |-> "custom packages",
                severity |-> "high", description |-> "d-custom",
                globs |-> << <<LockGlob>> >>] >>,
          signatures |->
            << RawSignature("s1", "custom", <<StringIndicator(<<"EVIL">>)>>),
               RawSignature("s2", "custom", <<GlobIndicator(JsGlob)>>) >>]
    [] p = LatestPath ->
         [id |-> "latest", compromisedPackagesFile |-> <<>>,
          compromisedPackages |-> <<>>,
          compromisedPackagesSignature |-> <<>>,
          signatures |->
            << RawSignature("s1", "latest", <<RegexIndicator(<<"LINE">>)>>),
               RawSignature("s3", "latest",
                            <<HashIndicator(<<"SHA256:", "ok">>)>>) >>]
    [] p = ShaiHuludPath ->
         [id |-> "shai-hulud", compromisedPackagesFile |-> <<>>,
          compromisedPackages |->
            << <<RawPackage(LeftPad.name, Absent, <<<<LeftPad.version>>>>)>> >>,
          compromisedPackagesSignature |-> <<>>,
          signatures |->
            << RawSignature("s3", "shai-hulud", <<StringIndicator(<<"line">>)>>),
               RawSignature("s1", "shai-hulud", <<GlobIndicator(BinGlob)>>),
               RawSignature("s3", "shai-hulud", <<StringIndicator(<<"evil">>)>>) >>]
    [] p = BasePath ->
         [id |-> "base", compromisedPackagesFile |-> <<>>,
          compromisedPackages |-> <<>>,
          compromisedPackagesSignature |-> <<>>,
          signatures |->
            << RawSignature("s4", "base", <<StringIndicator(<<"evil">>)>>) >>]

ManifestPaths == {CustomPath, LatestPath, ShaiHuludPath, BasePath}

\* every extends list of at most MaxExtends references
RECURSIVE ExtendsLists(_)
ExtendsLists(n) ==
  IF n = 0 THEN {<<>>}
  ELSE LET shorter == ExtendsLists(n - 1)
       IN shorter \cup
          {Append(q, r) : q \in {x \in shorter : Len(x) = n - 1}, r \in ExtendRefs}

\* loadManifest, lines 385-414: the signatures a manifest contributes itself,
\* the compromised-packages signature before its inline ones
OwnSignatures(absolute) ==
  LET manifest == ManifestBody(absolute)
  IN PackageSignatures(manifest, absolute, loadCompromisedPackages(manifest).entries)
     \o manifest.signatures

\* dedupeByKey with the key signature.id: a Map keeps a key where it was first
\* inserted and holds the value set last
\* the positions of items that hold the first occurrence of their key, and
\* the n-th of them
FirstOccurrences(items) ==
  {i \in DOMAIN items : \A j \in 1..(i - 1) : items[j].id # items[i].id}

NthOf(indices, n) ==
  CHOOSE i \in indices : Cardinality({j \in indices : j < i}) = n - 1

dedupeByKey_KeepFirst(items) ==
  [n \in 1..Cardinality(FirstOccurrences(items)) |->
     items[NthOf(FirstOccurrences(items), n)]]

dedupeByKey(items) ==
  [n \in 1..Cardinality(FirstOccurrences(items)) |->
     LET key == items[NthOf(FirstOccurrences(items), n)].id
         same == {j \in DOMAIN items : items[j].id = key}
     IN items[CHOOSE j \in same : \A k \in same : k <= j]]

\* materializeSignatures: deduplicate by id, then compile the indicators of
\* each signature (threat references are not modelled)
materializeSignatures(signatures) ==
  LET deduped == dedupeByKey(signatures)
      ofType(sig, t) == SelectSeq(sig.indicators, LAMBDA ind : ind.type = t)
      compile(sig) ==
        [id |-> sig.id, title |-> sig.title, severity |-> sig.severity,
         description |-> sig.description, indicators |-> sig.indicators,
         regexes |-> [i \in DOMAIN ofType(sig, "regex") |->
                        [source |-> ofType(sig, "regex")[i].value]],
         strings |-> [i \in DOMAIN ofType(sig, "string") |->
                        ToLowerCase(ofType(sig, "string")[i].value)],
         globs |-> [i \in DOMAIN ofType(sig, "glob") |->
                      ofType(sig, "glob")[i].pattern],
         hashes |-> [i \in DOMAIN ofType(sig, "sha256") |->
                       ToLowerCase(ofType(sig, "sha256")[i].value)],
         packages |-> SelectSeq(
                        [i \in DOMAIN ofType(sig, "package") |->
                           [name |-> ofType(sig, "package")[i].name,
                            version |->
                              canonicalizeVersion(ofType(sig, "package")[i].version)]],
                        LAMBDA pk : pk.version # "")]
  IN [i \in DOMAIN deduped |-> compile(deduped[i])]

CircularError == "Circular signature pack extends detected"
NotFoundError == "ENOENT"

\* before loadSignatures is called
InitLoad ==
  /\ InitPool
  /\ threads = 1
  /\ pc = "load"
  /\ MtIdle
  /\ GlIdle
  /\ PkIdle
  /\ WlkIdle
  /\ LdIdle
  /\ CliIdle
  /\ BootIdle

\* loadSignatures({signatureFile: "custom.json"}), lines 549-566, up to its
\* call of loadManifest, over any extends lists of custom.json and the two
\* profile packs; packs/base extends nothing
loadSignatures ==
  /\ ld.status = "idle"
  /\ \E extends \in [ManifestPaths \ {BasePath} -> ExtendsLists(MaxExtends)] :
       ld' = [ld EXCEPT !.extends = [p \in ManifestPaths |->
                                      IF p = BasePath THEN <<>> ELSE extends[p]],
                        !.status = "loading",
                        !.call = <<PathResolve(Cwd, <<".", "custom.json">>)>>]
  /\ UNCHANGED <<pkgs, gl, cli, boot, mt, wlk, threads, workers, queue, posted, taken, wk, outbox,
                 promise, pending, detections, errors, metrics, pc, nextEntry,
                 walkErrs, drainLatch, drainState, faults>>

LdTop == ld.stack[Len(ld.stack)]

\* context.visited.has(absolute), line 347
visitedHas_Never(visited, absolute) == FALSE

visitedHas(visited, absolute) == absolute \in visited

\* loadManifest, lines 346-351: entered with a path; throws on a path that is
\* being resolved and on a manifest that cannot be read (nothing catches, so
\* loadSignatures rejects)
LoadManifestCall ==
  /\ ld.status = "loading"
  /\ ld.call # <<>>
  /\ LET absolute == Normalize(ld.call[1])
     IN IF visitedHas(ld.visited, absolute)
          THEN ld' = [ld EXCEPT !.status = "failed", !.error = CircularError,
                                !.call = <<>>, !.steps = @ + 1]
        ELSE IF absolute \notin ManifestPaths
          THEN ld' = [ld EXCEPT !.status = "failed", !.error = NotFoundError,
                                !.call = <<>>, !.steps = @ + 1,
                                !.visited = ld.visited \cup {absolute}]
        ELSE ld' = [ld EXCEPT !.visited = ld.visited \cup {absolute},
                              !.call = <<>>, !.steps = @ + 1,
                              !.stack = Append(ld.stack,
                                               [absolute |-> absolute, next |-> 1,
                                                signatures |-> <<>>])]
  /\ UNCHANGED <<pkgs, gl, cli, boot, mt, wlk, threads, workers, queue, posted, taken, wk, outbox,
                 promise, pending, detections, errors, metrics, pc, nextEntry,
                 walkErrs, drainLatch, drainState, faults>>

\* loadManifest, lines 363-371: the next extends entry is resolved and loaded
ExtendsNext ==
  /\ ld.status = "loading"
  /\ ld.call = <<>>
  /\ ld.stack # <<>>
  /\ LdTop.next <= Len(ld.extends[LdTop.absolute])
  /\ ld' = [ld EXCEPT !.steps = @ + 1, !.call =
              <<ExtendPath(LdTop.absolute, ld.extends[LdTop.absolute][LdTop.next])>>]
  /\ UNCHANGED <<pkgs, gl, cli, boot, mt, wlk, threads, workers, queue, posted, taken, wk, outbox,
                 promise, pending, detections, errors, metrics, pc, nextEntry,
                 walkErrs, drainLatch, drainState, faults>>

\* a return that leaves the path in context.visited
visitedDelete_Keep(visited, absolute) == visited

\* context.visited.delete(absolute), line 423
visitedDelete(visited, absolute) == visited \ {absolute}

\* loadManifest, lines 385-432: the manifest's own signatures follow those of
\* the packs it extends, its path leaves visited and the result goes to the
\* caller: the extending manifest (line 372) or loadSignatures (line 568)
LoadManifestReturn ==
  /\ ld.status = "loading"
  /\ ld.call = <<>>
  /\ ld.stack # <<>>
  /\ LdTop.next > Len(ld.extends[LdTop.absolute])
  /\ LET result == LdTop.signatures \o OwnSignatures(LdTop.absolute)
         depth == Len(ld.stack)
         visited == visitedDelete(ld.visited, LdTop.absolute)
     IN IF depth = 1
          THEN ld' = [ld EXCEPT !.visited = visited, !.stack = <<>>,
                                !.status = "loaded", !.steps = @ + 1,
                                !.signatures = materializeSignatures(result)]
        ELSE ld' = [ld EXCEPT
                      !.visited = visited, !.steps = @ + 1,
                      !.stack = [SubSeq(ld.stack, 1, depth - 1) EXCEPT
                                   ![depth - 1].signatures = @ \o result,
                                   ![depth - 1].next = @ + 1]]
  /\ UNCHANGED <<pkgs, gl, cli, boot, mt, wlk, threads, workers, queue, posted, taken, wk, outbox,
                 promise, pending, detections, errors, metrics, pc, nextEntry,
                 walkErrs, drainLatch, drainState, faults>>

NextLoad == loadSignatures \/ LoadManifestCall \/ ExtendsNext \/ LoadManifestReturn

SpecLoad == InitLoad /\ [][NextLoad]_vars

(* ========== signatures/index.ts: loadManifest from its line 385 ========= *)
MaxPackages == 2          \* entries of a manifest's inline packages list
MaxFilePackages == 1      \* entries of the packages list of a referenced file

\* the raw entries the packages lists are drawn from: versions to trim,
\* versions given twice, entries and items of the wrong type, versions that
\* are blank, and two pairs that make the same text name@version
PackageCatalogue ==
  { RawPackage("a", " 1 ", <<>>),
    RawPackage("a", Absent, << <<"1", "  ", Absent, " 2">> >>),
    RawPackage("a", "1", << <<"1 ">> >>),
    RawPackage("b", "  ", <<>>),
    RawPackage(Absent, "1", <<>>),
    NotAnObject,
    RawPackage("a@1", "2", <<>>),
    RawPackage("a", "1@2", <<>>) }

\* the raw lists of up to n entries, and what is no array
RawLists(n) ==
  {<<>>} \cup {<<list>> : list \in {<<>>} \cup SeqsUpTo(PackageCatalogue, n)}

PackageFiles ==
  {<<>>, <<[readable |-> FALSE, valid |-> FALSE, packages |-> <<>>]>>,
   <<[readable |-> TRUE, valid |-> FALSE, packages |-> <<>>]>>}
  \cup {<<[readable |-> TRUE, valid |-> TRUE, packages |-> packages]>> :
          packages \in RawLists(MaxFilePackages)}

\* compromisedPackagesSignature: none, without globs, with a list of globs,
\* with an empty list of globs
Overrides ==
  {<<>>} \cup
  {<<[id |-> "own:packages", title |-> "own title", severity |-> "low",
      description |-> "own description", globs |-> globs]>> :
     globs \in {<<>>, << <<JsGlob>> >>, << <<>> >>}}

InitPkgs ==
  /\ InitPool
  /\ threads = 1
  /\ pc = "packages"
  /\ MtIdle
  /\ LdIdle
  /\ WlkIdle
  /\ CliIdle
  /\ BootIdle
  /\ GlIdle
  /\ \E id \in {Absent, "m"}, file \in PackageFiles,
        packages \in RawLists(MaxPackages), override \in Overrides :
       pkgs = [manifest |-> [id |-> id, compromisedPackagesFile |-> file,
                           compromisedPackages |-> packages,
                           compromisedPackagesSignature |-> override],
             result |-> <<>>, signatures |-> <<>>, pc |-> "call"]

\* loadManifest, lines 385-410, for the manifest at custom.json: the packages
\* are loaded and the signature made of them is pushed; a throw of
\* loadCompromisedPackages leaves loadManifest
LoadManifestPackages ==
  /\ pkgs.pc = "call"
  /\ LET packageResult == loadCompromisedPackages(pkgs.manifest)
     IN pkgs' = [pkgs EXCEPT
                 !.result = <<packageResult>>,
                 !.signatures =
                   IF packageResult.error # NoError THEN <<>>
                   ELSE PackageSignatures(pkgs.manifest, CustomPath,
                                          packageResult.entries),
                 !.pc = IF packageResult.error # NoError THEN "thrown" ELSE "pushed"]
  /\ UNCHANGED <<gl, cli, boot, mt, ld, wlk, threads, workers, queue, posted, taken,
                 wk, outbox, promise, pending, detections, errors, metrics, pc,
                 nextEntry, walkErrs, drainLatch, drainState, faults>>

NextPkgs == LoadManifestPackages

SpecPkgs == InitPkgs /\ [][NextPkgs]_vars

(* ========================= index.ts: walkPaths ========================== *)
MaxRoots == 2             \* root paths of one walk
MaxFsErrors == 1          \* calls of lstat or readdir that fail in one walk

\* path.join(current, entry): a path is a sequence of fragments, the
\* separators among them
PathJoin(current, entry) == current \o <<PathSep>> \o entry

Directory(entries) == [kind |-> "dir", entries |-> entries, size |-> 0, target |-> <<>>]
RegularFile(size) == [kind |-> "file", entries |-> <<>>, size |-> size, target |-> <<>>]
SymbolicLink(target) == [kind |-> "symlink", entries |-> <<>>, size |-> 0, target |-> target]
Socket == [kind |-> "socket", entries |-> <<>>, size |-> 0, target |-> <<>>]
NoNode == [kind |-> "none", entries |-> <<>>, size |-> 0, target |-> <<>>]

\* the disk: r/ln links back to r, lnroot links to r/sub
NodeAt(p) ==
  CASE p = <<"r">> ->
         Directory(<< <<"a.js">>, <<"node_modules">>, <<"ln">>, <<"sub">> >>)
    [] p = <<"r", "/", "a.js">> -> RegularFile(1)
    [] p = <<"r", "/", "node_modules">> -> Directory(<< <<"pkg.js">> >>)
    [] p = <<"r", "/", "node_modules", "/", "pkg.js">> -> RegularFile(2)
    [] p = <<"r", "/", "ln">> -> SymbolicLink(<<"r">>)
    [] p = <<"r", "/", "sub">> ->
         Directory(<< <<"b.js">>, <<"deep">>, <<"sock">> >>)
    [] p = <<"r", "/", "sub", "/", "b.js">> -> RegularFile(3)
    [] p = <<"r", "/", "sub", "/", "sock">> -> Socket
    [] p = <<"r", "/", "sub", "/", "deep">> -> Directory(<< <<"dist", "ance.js">> >>)
    [] p = <<"r", "/", "sub", "/", "deep", "/", "dist", "ance.js">> -> RegularFile(4)
    [] p = <<"lnroot">> -> SymbolicLink(<<"r", "/", "sub">>)
    [] p = <<"f.txt">> -> RegularFile(5)
    [] OTHER -> NoNode

NodePaths ==
  { <<"r">>, <<"r", "/", "a.js">>, <<"r", "/", "node_modules">>,
    <<"r", "/", "node_modules", "/", "pkg.js">>, <<"r", "/", "ln">>,
    <<"r", "/", "sub">>, <<"r", "/", "sub", "/", "b.js">>,
    <<"r", "/", "sub", "/", "sock">>, <<"r", "/", "sub", "/", "deep">>,
    <<"r", "/", "sub", "/", "deep", "/", "dist", "ance.js">>, <<"lnroot">>,
    <<"f.txt">> }

\* the root paths a caller passes: a tree, a directory named like an
\* exclusion, a link, a file and a path that does not exist
RootCandidates ==
  { <<"r">>, <<"r", "/", "node_modules">>, <<"lnroot">>, <<"f.txt">>, <<"gone">> }

RECURSIVE RootLists(_)
RootLists(n) ==
  IF n = 0 THEN {<<>>}
  ELSE LET shorter == RootLists(n - 1)
       IN shorter \cup
          {Append(q, r) : q \in {x \in shorter : Len(x) = n - 1}, r \in RootCandidates}

\* options.maxDepth: undefined, or a depth
DepthOptions == {<<>>, <<0>>, <<1>>}

\* options.exclude
ExcludeLists ==
  { <<>>, << <<"node_modules">> >>, << <<"dist">> >>,
    << <<"/", "sub">>, <<"node_modules">> >> }

\* the calls that may fail for a reason other than a missing path
FailureSpots ==
  {[op |-> "lstat", path |-> p] :
     p \in { <<"r", "/", "a.js">>, <<"r", "/", "sub">>, <<"lnroot">>,
             <<"r", "/", "sub", "/", "deep">> }}
  \cup {[op |-> "readdir", path |-> p] : p \in { <<"r">>, <<"r", "/", "sub">> }}

\* every set of at most n failing calls
RECURSIVE FailureSets(_)
FailureSets(n) ==
  IF n = 0 THEN {{}}
  ELSE LET fewer == FailureSets(n - 1)
       IN fewer \cup {x \cup {f} : x \in fewer, f \in FailureSpots}

Fails(op, p) == [op |-> op, path |-> p] \in wlk.failing

\* index of the last separator of a path, 0 if it has none
LastSep(p) ==
  LET seps == {i \in DOMAIN p : p[i] = PathSep}
  IN IF seps = {} THEN 0 ELSE CHOOSE i \in seps : \A j \in seps : j <= i

\* where the file system finds a path: links among the parents are followed,
\* the last component's only on request
RECURSIVE Realpath(_, _)
Realpath(p, followLast) ==
  LET cut == LastSep(p)
      direct == IF cut = 0 THEN p
                ELSE Realpath(SubSeq(p, 1, cut - 1), TRUE) \o SubSeq(p, cut, Len(p))
  IN IF followLast /\ NodeAt(direct).kind = "symlink"
       THEN Realpath(NodeAt(direct).target, TRUE)
     ELSE direct

\* fs.stat in place of fs.lstat
lstat_Follow(p) ==
  LET node == NodeAt(Realpath(p, TRUE))
  IN IF Fails("lstat", p) THEN [error |-> "EACCES", stats |-> NoNode]
     ELSE IF node.kind = "none" THEN [error |-> "ENOENT", stats |-> NoNode]
     ELSE [error |-> NoError, stats |-> node]

\* fs.lstat: the last component is not followed
lstat(p) ==
  LET node == NodeAt(Realpath(p, FALSE))
  IN IF Fails("lstat", p) THEN [error |-> "EACCES", stats |-> NoNode]
     ELSE IF node.kind = "none" THEN [error |-> "ENOENT", stats |-> NoNode]
     ELSE [error |-> NoError, stats |-> node]

\* a readdir whose failure is swallowed
readdir_Silent(p) ==
  LET node == NodeAt(Realpath(p, TRUE))
  IN [error |-> NoError, entries |-> IF Fails("readdir", p) THEN <<>> ELSE node.entries]

\* fs.readdir
readdir(p) ==
  LET node == NodeAt(Realpath(p, TRUE))
  IN IF Fails("readdir", p) THEN [error |-> "EACCES", entries |-> <<>>]
     ELSE IF node.kind # "dir" THEN [error |-> "ENOTDIR", entries |-> <<>>]
     ELSE [error |-> NoError, entries |-> node.entries]

\* line 188: options.exclude?.some((pattern) => child.includes(pattern))
Excluded(child, exclude) == \E k \in DOMAIN exclude : Includes(child, exclude[k])

\* line 176, with the depth compared one level late
DepthExceeded_OneLate(depth, maxDepth) == maxDepth # <<>> /\ depth > maxDepth[1] + 1

\* line 176: options.maxDepth !== undefined && depth > options.maxDepth
DepthExceeded(depth, maxDepth) == maxDepth # <<>> /\ depth > maxDepth[1]

\* what the generator yields: {path, error} or {path, size}, here with both
\* fields and error = NoError for a file
ErrorEntry(p, error) == [path |-> p, size |-> 0, error |-> error]
FileEntry(p, size) == [path |-> p, size |-> size, error |-> NoError]

\* walkPaths called with any roots and options, on a disk where at most
\* MaxFsErrors calls will fail; lines 159-162 have pushed the roots
InitWalk ==
  /\ InitPool
  /\ threads = 1
  /\ pc = "walk"
  /\ MtIdle
  /\ GlIdle
  /\ PkIdle
  /\ LdIdle
  /\ CliIdle
  /\ BootIdle
  /\ \E paths \in RootLists(MaxRoots), maxDepth \in DepthOptions,
        exclude \in ExcludeLists, failing \in FailureSets(MaxFsErrors) :
       wlk = [paths |-> paths, maxDepth |-> maxDepth, exclude |-> exclude,
                 failing |-> failing,
                 stack |-> [i \in DOMAIN paths |-> [path |-> paths[i], depth |-> 0]],
                 popped |-> <<>>, opened |-> <<>>, yielded |-> <<>>,
                 status |-> "walking"]

\* lines 163-196: one turn of the loop; popped and opened record the paths
\* taken from the stack and the directories listed
WalkIteration ==
  /\ wlk.status = "walking"
  /\ wlk.stack # <<>>
  /\ LET top == wlk.stack[Len(wlk.stack)]
         rest == SubSeq(wlk.stack, 1, Len(wlk.stack) - 1)
         current == top.path
         depth == top.depth
         st == lstat(current)
         listing == readdir(current)
         children == [i \in DOMAIN listing.entries |->
                        PathJoin(current, listing.entries[i])]
         kept == SelectSeq(children, LAMBDA child : ~Excluded(child, wlk.exclude))
         after == [wlk EXCEPT !.stack = rest, !.popped = Append(@, top)]
     IN IF st.error # NoError
          THEN wlk' = [after EXCEPT !.yielded = Append(@, ErrorEntry(current, st.error))]
        ELSE IF st.stats.kind = "symlink"
          THEN wlk' = after
        ELSE IF st.stats.kind = "dir"
          THEN IF DepthExceeded(depth, wlk.maxDepth)
                 THEN wlk' = after
               ELSE IF listing.error # NoError
                 THEN wlk' = [after EXCEPT
                                !.yielded = Append(@, ErrorEntry(current, listing.error))]
               ELSE wlk' = [after EXCEPT
                              !.opened = Append(@, top),
                              !.stack = rest \o [i \in DOMAIN kept |->
                                                   [path |-> kept[i], depth |-> depth + 1]]]
        ELSE IF st.stats.kind = "file"
          THEN wlk' = [after EXCEPT !.yielded = Append(@, FileEntry(current, st.stats.size))]
        ELSE wlk' = after
  /\ UNCHANGED <<pkgs, gl, cli, boot, mt, ld, threads, workers, queue, posted, taken, wk, outbox,
                 promise, pending, detections, errors, metrics, pc, nextEntry,
                 walkErrs, drainLatch, drainState, faults>>

\* line 163: the stack is empty, the generator returns
WalkReturn ==
  /\ wlk.status = "walking"
  /\ wlk.stack = <<>>
  /\ wlk' = [wlk EXCEPT !.status = "done"]
  /\ UNCHANGED <<pkgs, gl, cli, boot, mt, ld, threads, workers, queue, posted, taken, wk, outbox,
                 promise, pending, detections, errors, metrics, pc, nextEntry,
                 walkErrs, drainLatch, drainState, faults>>

NextWalk == WalkIteration \/ WalkReturn

SpecWalk == InitWalk /\ [][NextWalk]_vars

(* ============================= cli.ts: main ============================= *)
MaxSummary == 2           \* detections, and errors, in the summary of a run

\* one run of main(): what the arguments ask for, whether the profile named
\* is known, how the clone goes (none asked, done, failed), whether scan()
\* rejects and what its summary holds, whether reporting or the removal of
\* the clone throws
InitCli ==
  /\ InitPool
  /\ threads = 1
  /\ pc = "cli"
  /\ MtIdle
  /\ GlIdle
  /\ PkIdle
  /\ LdIdle
  /\ WlkIdle
  /\ BootIdle
  /\ \E option \in {"scan", "help", "version", "listProfiles"},
        profileKnown \in BOOLEAN, clone \in {"none", "done", "failed"},
        scanThrows \in BOOLEAN, found \in 0..MaxSummary, failed \in 0..MaxSummary,
        reportThrows \in BOOLEAN, cleanupThrows \in BOOLEAN :
       cli = [option |-> option, profileKnown |-> profileKnown, clone |-> clone,
              scanThrows |-> scanThrows, found |-> found, failed |-> failed,
              reportThrows |-> reportThrows, cleanupThrows |-> cleanupThrows,
              summary |-> <<>>, exitCode |-> <<>>, pc |-> "start"]

\* lines 573-578: the catch block of main()
Fatal(c) == [c EXCEPT !.exitCode = <<1>>, !.pc = "returned"]

FrameCli ==
  UNCHANGED <<pkgs, gl, boot, mt, ld, wlk, threads, workers, queue, posted, taken, wk, outbox,
              promise, pending, detections, errors, metrics, pc, nextEntry,
              walkErrs, drainLatch, drainState, faults>>

\* lines 447-467: the arguments are parsed; help, version and the list of
\* profiles return at once, an unknown profile id throws
MainParse ==
  /\ cli.pc = "start"
  /\ cli' = IF cli.option # "scan" THEN [cli EXCEPT !.pc = "returned"]
            ELSE IF ~cli.profileKnown THEN Fatal(cli)
            ELSE [cli EXCEPT !.pc = "clone"]
  /\ FrameCli

\* lines 503-513: the repository is cloned if a URL was given
MainClone ==
  /\ cli.pc = "clone"
  /\ cli' = IF cli.clone = "failed" THEN Fatal(cli) ELSE [cli EXCEPT !.pc = "scan"]
  /\ FrameCli

\* lines 526-536: await scan(...)
MainScan ==
  /\ cli.pc = "scan"
  /\ cli' = IF cli.scanThrows THEN Fatal(cli)
            ELSE [cli EXCEPT !.pc = "report",
                             !.summary = <<[detections |-> cli.found,
                                            errors |-> cli.failed]>>]
  /\ FrameCli

\* lines 538-566: the detections, the prompt, the JSON or the summary and the
\* first errors are written
MainReport ==
  /\ cli.pc = "report"
  /\ cli' = IF cli.reportThrows THEN Fatal(cli) ELSE [cli EXCEPT !.pc = "cleanup"]
  /\ FrameCli

\* line 572
ExitCodeOf(summary) ==
  IF summary.detections # 0 THEN 2 ELSE IF summary.errors # 0 THEN 1 ELSE 0

\* lines 568-572: the clone is removed and the exit code set
MainFinish ==
  /\ cli.pc = "cleanup"
  /\ cli' = IF cli.clone = "done" /\ cli.cleanupThrows THEN Fatal(cli)
            ELSE [cli EXCEPT !.exitCode = <<ExitCodeOf(cli.summary[1])>>,
                             !.pc = "returned"]
  /\ FrameCli

NextCli == MainParse \/ MainClone \/ MainScan \/ MainReport \/ MainFinish

SpecCli == InitCli /\ [][NextCli]_vars

\* the code the process exits with: process.exitCode, 0 while it is unset
ExitCode == IF cli.exitCode = <<>> THEN 0 ELSE cli.exitCode[1]

(* ====================== index.ts: scan, its first lines ================= *)
MaxCores == 34            \* os.cpus().length
MaxThreadsOption == 3     \* options.threads, when it is a number

\* the error loadSignatures throws for a profile id it does not know
UnknownProfileError == "Unknown threat profile"

LoaderOutcomes ==
  {NoError, NotFoundError, ParseError, CircularError, UnknownProfileError}

\* options.threads: left out, NaN, or a number
ThreadsOptions ==
  {[kind |-> "undefined", value |-> 0], [kind |-> "NaN", value |-> 0]}
  \cup {[kind |-> "number", value |-> n] : n \in (0 - 1)..MaxThreadsOption}

Min(a, b) == IF a < b THEN a ELSE b
Max(a, b) == IF a > b THEN a ELSE b

\* a default without the floor of two workers
threadsOf_NoFloor(option, cores) ==
  IF option.kind = "number" /\ option.value # 0 /\ option.value > 0
    THEN option.value
  ELSE Min(cores - 1, 32)

\* lines 205-208: options.threads && options.threads > 0 ? options.threads
\*                : Math.min(Math.max(2, os.cpus().length - 1), 32)
threadsOf(option, cores) ==
  IF option.kind = "number" /\ option.value # 0 /\ option.value > 0
    THEN option.value
  ELSE Min(Max(2, cores - 1), 32)

\* scan() is called: how loadSignatures ends, options.threads, the cores of
\* the machine and what the walk yields first
InitBoot ==
  /\ InitPool
  /\ threads = 1
  /\ pc = "boot"
  /\ MtIdle
  /\ GlIdle
  /\ PkIdle
  /\ LdIdle
  /\ WlkIdle
  /\ CliIdle
  /\ \E loader \in LoaderOutcomes, option \in ThreadsOptions, cores \in 0..MaxCores,
        entry \in {"file", "error"} :
       boot = [loader |-> loader, threadsOption |-> option, cores |-> cores,
               entry |-> entry, threads |-> 0, spawned |-> 0, walked |-> 0,
               submitted |-> 0, error |-> NoError, pc |-> "load"]

FrameBoot ==
  UNCHANGED <<pkgs, gl, cli, mt, ld, wlk, threads, workers, queue, posted, taken, wk, outbox,
              promise, pending, detections, errors, metrics, pc, nextEntry,
              walkErrs, drainLatch, drainState, faults>>

\* a scan() that goes on with no signatures when the pack cannot be loaded
AwaitLoadSignatures_Swallow(b) == [b EXCEPT !.pc = "setup"]

\* line 202: await loadSignatures(...); a rejection rejects scan()
AwaitLoadSignatures(b) ==
  IF b.loader # NoError THEN [b EXCEPT !.pc = "rejected", !.error = b.loader]
  ELSE [b EXCEPT !.pc = "setup"]

ScanLoads ==
  /\ boot.pc = "load"
  /\ boot' = AwaitLoadSignatures(boot)
  /\ FrameBoot

\* lines 205-215 and 73-79: the pool size is fixed and the constructor
\* spawns that many workers
ScanBuildsPool ==
  /\ boot.pc = "setup"
  /\ LET size == threadsOf(boot.threadsOption, boot.cores)
     IN boot' = [boot EXCEPT !.threads = size, !.spawned = size, !.pc = "walk"]
  /\ FrameBoot

\* lines 217-274: the first entry of the walk, an error or a file that
\* becomes a job
ScanTakesEntry ==
  /\ boot.pc = "walk"
  /\ boot' = [boot EXCEPT !.walked = 1,
                          !.submitted = IF boot.entry = "file" THEN 1 ELSE 0,
                          !.pc = "running"]
  /\ FrameBoot

NextBoot == ScanLoads \/ ScanBuildsPool \/ ScanTakesEntry

SpecBoot == InitBoot /\ [][NextBoot]_vars

(* ===================== utils/hash.ts: matchGlob alone ================== *)
MaxGlobLen == 3
MaxPathLen == 4

\* the fragments globs and paths are drawn from
GlobAlphabet == {"a", "b", "/", "*", "?", "\\"}
PathAlphabet == {"a", "A", "b", "/"}

InitGlob ==
  /\ InitPool
  /\ threads = 1
  /\ pc = "glob"
  /\ MtIdle
  /\ LdIdle
  /\ WlkIdle
  /\ CliIdle
  /\ BootIdle
  /\ PkIdle
  /\ \E targetPath \in SeqsUpTo(PathAlphabet, MaxPathLen),
        globPattern \in SeqsUpTo(GlobAlphabet, MaxGlobLen) :
       gl = [targetPath |-> targetPath, globPattern |-> globPattern,
             result |-> <<>>, pc |-> "call"]

\* lines 65-68: one call of matchGlob
MatchGlobCall ==
  /\ gl.pc = "call"
  /\ gl' = [gl EXCEPT !.result = <<matchGlob(gl.targetPath, gl.globPattern)>>,
                      !.pc = "returned"]
  /\ UNCHANGED <<pkgs, cli, boot, mt, ld, wlk, threads, workers, queue, posted, taken, wk,
                 outbox, promise, pending, detections, errors, metrics, pc,
                 nextEntry, walkErrs, drainLatch, drainState, faults>>

NextGlob == MatchGlobCall

SpecGlob == InitGlob /\ [][NextGlob]_vars

(* ================================ claims ================================ *)
ScanPosts == {i \in DOMAIN posted : posted[i].type = "scan"}

\* the scan messages a worker has been sent and that no event has answered
Unanswered(w) ==
  {i \in ScanPosts : posted[i].to = w /\ promise[posted[i].path] = "pending"}

\* what a live worker still owes the pool: scans not yet taken, scans in
\* progress, results not yet handled
Owed(w) ==
  Cardinality({i \in (taken[w] + 1)..Len(Inbox(w)) : Inbox(w)[i].type = "scan"})
  + Cardinality(wk[w].active)
  + Cardinality({i \in DOMAIN outbox[w] : outbox[w][i].type = "result"})

\* C1: on a pool of N workers at most N jobs are dispatched and unsettled at
\* once; a worker has at most one unanswered scan message, and its record is
\* busy exactly when it holds a currentJob, which is that message's job.
C1_AtMostNInFlight ==
  /\ Cardinality({i \in ScanPosts : promise[posted[i].path] = "pending"}) <= threads
  /\ \A w \in 1..threads :
       /\ Cardinality(Unanswered(w)) <= 1
       /\ workers[w].busy <=> workers[w].currentJob # NoJob
       /\ {posted[i].path : i \in Unanswered(w)} =
            (IF workers[w].busy THEN {workers[w].currentJob} ELSE {})
       /\ wk[w].status = "alive" => Owed(w) <= 1

\* every worker holds a job, a job waits in the queue, an earlier one is done
C1_Witness ==
  /\ threads = 2
  /\ \A w \in 1..threads : workers[w].busy
  /\ queue # <<>>
  /\ \E p \in DOMAIN promise : promise[p] = "fulfilled"

\* the jobs scan() has submitted and that have not settled
Unsettled == {p \in DOMAIN promise : promise[p] = "pending"}

\* C2: the pending set holds exactly the unsettled jobs and never more than
\* threads * 4 of them; while it is at the cap no step of scan() submits a job.
C2_PendingBounded ==
  /\ [](pending = Unsettled /\ Cardinality(pending) <= threads * 4)
  /\ [][Cardinality(pending) >= threads * 4 => Unsettled' \subseteq Unsettled]_vars

\* scan() waits at the cap with entries still to come
C2_Witness ==
  /\ pc = "raceCap"
  /\ Cardinality(pending) = threads * 4
  /\ nextEntry <= NumFiles

ErrorsFor(p) == {i \in DOMAIN errors : errors[i].path = p}

DetectionsFor(p) == {i \in DOMAIN detections : detections[i].path = p}

\* C3: a worker fault rejects only the job of that worker, the job is recorded
\* once in errors, and scan() does not throw.
C3_FaultIsolated ==
  /\ pc # "thrown"
  /\ \A p \in DOMAIN promise :
       promise[p] = "rejected" => Cardinality(ErrorsFor(p)) = 1

\* C6: drain() is called, and terminate() after it, only once every submitted
\* job has settled: the pending set is empty, no worker is busy and the queue
\* is empty; the shutdown messages follow the resolution of drain().
C6_DrainAfterSettled ==
  /\ (drainState # "idle" \/ ShutdownPosted \/ pc = "done") =>
       /\ pending = {}
       /\ Unsettled = {}
       /\ queue = <<>>
       /\ \A w \in 1..threads : ~workers[w].busy
  /\ ShutdownPosted => drainState = "resolved"
  /\ pc = "done" =>
       \A w \in 1..threads :
         Cardinality({i \in DOMAIN posted :
                        posted[i].to = w /\ posted[i].type = "shutdown"}) = 1

\* scan() has returned after jobs that were fulfilled and a job that was rejected
C6_Witness ==
  /\ pc = "done"
  /\ \E p \in DOMAIN promise : promise[p] = "rejected"
  /\ Cardinality({p \in DOMAIN promise : promise[p] = "fulfilled"}) >= 3

\* C7: in the step in which the promise of drain() resolves, no worker is
\* busy and the queue is empty.
C7_DrainResolvesIdle ==
  [][(drainState # "resolved" /\ drainState' = "resolved") =>
       (queue' = <<>> /\ \A w \in 1..threads : ~workers'[w].busy)]_vars

\* the place in posted of the shutdown message of worker w, if any
ShutdownAt(w) ==
  LET at == {i \in DOMAIN posted : posted[i].to = w /\ posted[i].type = "shutdown"}
  IN IF at = {} THEN Len(posted) + 1 ELSE CHOOSE i \in at : \A j \in at : i <= j

\* C8: terminate() posts a shutdown message to every worker, and a job that was
\* dispatched to a worker before it does not stay unanswered once that worker
\* has exited: it has settled or its result is on its way to the pool.
C8_DispatchedJobsFinish ==
  /\ ShutdownPosted =>
       \A w \in 1..threads : ShutdownAt(w) <= Len(posted)
  /\ \A w \in 1..threads :
       wk[w].status = "closed" =>
         \A i \in ScanPosts :
           (posted[i].to = w /\ i < ShutdownAt(w)) =>
             \/ promise[posted[i].path] # "pending"
             \/ \E k \in DOMAIN outbox[w] : outbox[w][k].type = "result"

\* C9: jobs are dispatched in the order of their submission (job ids are
\* given in that order): the scan messages posted carry growing ids, and every
\* job still queued was submitted after every job dispatched and after the
\* jobs queued before it.
C9_FifoDispatch ==
  /\ \A i, j \in ScanPosts : i < j => posted[i].path < posted[j].path
  /\ \A k \in DOMAIN queue : \A i \in ScanPosts : posted[i].path < queue[k]
  /\ \A k, l \in DOMAIN queue : k < l => queue[k] < queue[l]

\* two jobs wait in the queue behind jobs dispatched earlier
C9_Witness ==
  /\ Len(queue) >= 2
  /\ Cardinality(ScanPosts) >= 2
  /\ \E p \in DOMAIN promise : promise[p] = "fulfilled"

\* the walked files that are missing, or whose read or digest fails
FailingFiles ==
  {p \in 1..NumFiles :
     \/ ~FileAt(p).exists
     \/ FileAt(p).readError # NoError
     \/ FileAt(p).hashError # NoError}

\* C10: a file that is missing or whose read or digest fails is answered by a
\* result message with error set, no matches and bytesRead 0; scan() records
\* it once in errors, reports no detection for it, and goes on: when it
\* returns every walked file has been handled.
C10_ErrorsAreData ==
  /\ \A w \in 1..threads : \A i \in DOMAIN outbox[w] :
       LET r == outbox[w][i]
       IN r.type = "result" =>
            /\ (r.path \in FailingFiles) <=> (r.error # NoError)
            /\ r.error # NoError => (r.matches = <<>> /\ r.bytesRead = 0)
  /\ \A p \in FailingFiles :
       promise[p] = "fulfilled" =>
         (Cardinality(ErrorsFor(p)) = 1 /\ DetectionsFor(p) = {})
  /\ pc = "done" =>
       \A p \in 1..NumFiles :
         \/ <<p>> = signatureSource
         \/ promise[p] \in {"fulfilled", "rejected"}
         \/ ErrorsFor(p) # {}

\* scan() has returned: the three failing files are in errors and the
\* lockfile walked after two of them has its detection
C10_Witness ==
  /\ pc = "done"
  /\ FailingFiles = {2, 4, 6}
  /\ \A p \in FailingFiles : promise[p] = "fulfilled" /\ ErrorsFor(p) # {}
  /\ promise[5] = "fulfilled" /\ DetectionsFor(5) # {}

\* the matches of the result of the handleScan call, if it has been made
ResultMatches == IF mt.result = NoResult THEN <<>> ELSE mt.result[1].matches

\* C4: the result of a file holds at most one match per signature id.
C4_OnePerSignature ==
  \A i, j \in DOMAIN ResultMatches :
    ResultMatches[i].signatureId = ResultMatches[j].signatureId => i = j

\* C4 as amended: the result of a file holds at most one match of kind glob,
\* string, regex or sha256 per signature id, and no two matches with the same
\* signature id, kind and value (package matches of one signature differ in
\* their name@version).
C4_OnePerSignatureButPackages ==
  \A i, j \in DOMAIN ResultMatches :
    (i # j /\ ResultMatches[i].signatureId = ResultMatches[j].signatureId) =>
      /\ "package" \in {ResultMatches[i].indicatorType, ResultMatches[j].indicatorType}
      /\ \/ ResultMatches[i].indicatorType # ResultMatches[j].indicatorType
         \/ ResultMatches[i].indicatorValue # ResultMatches[j].indicatorValue

\* a lockfile that holds a string of a signature and pins a package of it:
\* one string match and one package match with its id
C4_Witness ==
  /\ mt.file = FileLock
  /\ Cardinality({i \in DOMAIN ResultMatches :
                    /\ ResultMatches[i].signatureId = "c-mixed"
                    /\ ResultMatches[i].indicatorType = "string"}) = 1
  /\ Cardinality({i \in DOMAIN ResultMatches :
                    /\ ResultMatches[i].signatureId = "c-mixed"
                    /\ ResultMatches[i].indicatorType = "package"}) = 1
  /\ \E i \in DOMAIN ResultMatches : ResultMatches[i].signatureId = "c-pkgs"

SigOf(id) == CHOOSE i \in DOMAIN mt.sigs : mt.sigs[i].id = id

\* C5: a match of a signature that has globs is in the result of a file only
\* if the path of the file matches one of these globs.
C5_GlobGating ==
  \A i \in DOMAIN ResultMatches :
    LET signature == mt.sigs[SigOf(ResultMatches[i].signatureId)]
    IN signature.globs # <<>> =>
         \E k \in DOMAIN signature.globs : matchGlob(mt.file.path, signature.globs[k])

\* the packs the manifest at p extends, and the paths its chain reaches
ExtendsOf(p) ==
  IF ld.status # "idle" /\ p \in ManifestPaths
    THEN {ExtendPath(p, ld.extends[p][i]) : i \in DOMAIN ld.extends[p]}
  ELSE {}

RECURSIVE ReachIn(_, _)
ReachIn(S, n) ==
  IF n = 0 THEN S ELSE ReachIn(S \cup UNION {ExtendsOf(p) : p \in S}, n - 1)

Reachable(p) == ReachIn(ExtendsOf(p), Cardinality(ManifestPaths))

ChainOfRoot == {CustomPath} \cup Reachable(CustomPath)

ExtendsCyclic == \E p \in ChainOfRoot : p \in Reachable(p)

ChainReadable == ChainOfRoot \subseteq ManifestPaths

\* the steps a resolution over acyclic packs can take at most: a call, a
\* return and the step to it for every path of packs from the root
MaxLoadSteps ==
  3 * (1 + MaxExtends + MaxExtends * MaxExtends
         + MaxExtends * MaxExtends * MaxExtends)

\* C11: loading a pack whose extends chain is cyclic fails after finitely many
\* steps: the resolution is never deeper than the number of manifests and
\* never takes more than MaxLoadSteps steps, while it is not over one of its
\* steps can be taken, a load over a cyclic chain does not succeed and, when
\* every pack of the chain can be read, fails with the circular-extends error
\* (an unreadable pack met first fails the load with its own error), and that
\* error is raised for cyclic chains only.
C11_CircularExtendsFail ==
  /\ Len(ld.stack) <= Cardinality(ManifestPaths)
  /\ ld.steps <= MaxLoadSteps
  /\ ld.status = "loading" => (ld.call # <<>> \/ ld.stack # <<>>)
  /\ ld.status = "loaded" => ~ExtendsCyclic
  /\ (ld.status \in {"loaded", "failed"} /\ ExtendsCyclic /\ ChainReadable)
       => (ld.status = "failed" /\ ld.error = CircularError)
  /\ ld.error = CircularError => ExtendsCyclic

\* custom.json extends a pack that extends custom.json: the load has failed
\* two manifests deep
C11_Witness ==
  /\ ld.status = "failed"
  /\ ld.error = CircularError
  /\ Len(ld.stack) = 2
  /\ ChainReadable
  /\ CustomPath \in ExtendsOf(ld.stack[2].absolute)

\* the definition a pack itself gives an id: the last of its own signatures
\* with that id
OwnDefinition(p, id) ==
  LET own == OwnSignatures(p)
      same == {k \in DOMAIN own : own[k].id = id}
  IN own[CHOOSE k \in same : \A j \in same : j <= k]

\* C12: when the loaded pack extends other packs and redefines signature ids
\* of theirs, the compiled list has exactly one signature per id, it has every
\* id that a pack of the chain defines, and each id the loaded pack defines
\* itself carries the loaded pack's definition.
C12_ChildDefinitionWins ==
  ld.status = "loaded" =>
    /\ \A i, j \in DOMAIN ld.signatures :
         ld.signatures[i].id = ld.signatures[j].id => i = j
    /\ \A p \in ChainOfRoot : \A k \in DOMAIN OwnSignatures(p) :
         \E i \in DOMAIN ld.signatures : ld.signatures[i].id = OwnSignatures(p)[k].id
    /\ \A k \in DOMAIN OwnSignatures(CustomPath) :
         \E i \in DOMAIN ld.signatures :
           /\ ld.signatures[i].id = OwnSignatures(CustomPath)[k].id
           /\ ld.signatures[i].title
                = OwnDefinition(CustomPath, ld.signatures[i].id).title
           /\ ld.signatures[i].indicators
                = OwnDefinition(CustomPath, ld.signatures[i].id).indicators

\* custom.json extends packs/latest, which extends packs/shai-hulud: all three
\* define s1, and the compiled s1 is the one of custom.json
C12_Witness ==
  /\ ld.status = "loaded"
  /\ LatestPath \in ExtendsOf(CustomPath)
  /\ ShaiHuludPath \in ExtendsOf(LatestPath)
  /\ \E i \in DOMAIN ld.signatures :
       /\ ld.signatures[i].id = "s1"
       /\ ld.signatures[i].title = "custom s1"
       /\ ld.signatures[i].strings = << <<"evil">> >>

\* what walkPaths has yielded for a path: error entries, file entries
ErrorsYielded(p) ==
  {i \in DOMAIN wlk.yielded : wlk.yielded[i].path = p /\ wlk.yielded[i].error # NoError}

FilesYielded(p) ==
  {i \in DOMAIN wlk.yielded : wlk.yielded[i].path = p /\ wlk.yielded[i].error = NoError}

\* the path names a symbolic link on the disk
IsLink(p) == NodeAt(Realpath(p, FALSE)).kind = "symlink"

WalkTop == wlk.stack[Len(wlk.stack)]

\* C13 as stated: walkPaths never yields a symbolic link and never enumerates
\* through one: no path it takes up, lists or yields lies behind a link, and
\* a link, root or directory entry, is neither listed nor yielded, as a file
\* or as an error.
C13_SymlinksContributeNothing ==
  /\ \A i \in DOMAIN wlk.popped :
       Realpath(wlk.popped[i].path, FALSE) = wlk.popped[i].path
  /\ \A i \in DOMAIN wlk.opened : ~IsLink(wlk.opened[i].path)
  /\ \A i \in DOMAIN wlk.yielded : ~IsLink(wlk.yielded[i].path)

\* C13 amended: as above, but a link on which lstat itself fails is yielded
\* as an error entry like any other path; the turn of the loop that takes a
\* link lstat reports from the stack only drops it.
C13_SymlinksNotFollowed ==
  /\ [](\A i \in DOMAIN wlk.popped :
          Realpath(wlk.popped[i].path, FALSE) = wlk.popped[i].path)
  /\ [](\A i \in DOMAIN wlk.opened : ~IsLink(wlk.opened[i].path))
  /\ [](\A i \in DOMAIN wlk.yielded :
          IsLink(wlk.yielded[i].path)
            => /\ wlk.yielded[i].error # NoError
               /\ Fails("lstat", wlk.yielded[i].path))
  /\ [][(/\ wlk.status = "walking"
         /\ wlk.stack # <<>>
         /\ IsLink(WalkTop.path)
         /\ ~Fails("lstat", WalkTop.path))
          => /\ wlk'.yielded = wlk.yielded
             /\ wlk'.opened = wlk.opened
             /\ wlk'.stack = SubSeq(wlk.stack, 1, Len(wlk.stack) - 1)]_vars

\* the walk of r is over: the link r/ln to r itself was taken from the stack,
\* and so was the root link, yet only the files of r were yielded
C13_Witness ==
  /\ wlk.status = "done"
  /\ wlk.paths = << <<"lnroot">>, <<"r">> >>
  /\ wlk.exclude = <<>> /\ wlk.maxDepth = <<>> /\ wlk.failing = {}
  /\ \E i \in DOMAIN wlk.popped : wlk.popped[i].path = <<"r", "/", "ln">>
  /\ \E i \in DOMAIN wlk.popped : wlk.popped[i].path = <<"lnroot">>
  /\ Len(wlk.yielded) = 4

\* C14: for any root paths and any exclusion list, walkPaths yields no entry,
\* file or error, whose path contains one of the exclusion substrings, and
\* lists no directory whose path contains one.
C14_ExcludedNeverYielded ==
  /\ \A i \in DOMAIN wlk.yielded : ~Excluded(wlk.yielded[i].path, wlk.exclude)
  /\ \A i \in DOMAIN wlk.opened : ~Excluded(wlk.opened[i].path, wlk.exclude)

\* p is root or lies below it, and how many levels below
IsUnder(root, p) ==
  /\ Len(root) <= Len(p)
  /\ SubSeq(p, 1, Len(root)) = root
  /\ Len(p) = Len(root) \/ p[Len(root) + 1] = PathSep

LevelsBelow(root, p) ==
  Cardinality({i \in (Len(root) + 1)..Len(p) : p[i] = PathSep})

\* the next turn of the loop takes a directory from the stack that lies
\* deeper than maxDepth
SkipsDeepDirectory ==
  /\ wlk.status = "walking"
  /\ wlk.stack # <<>>
  /\ wlk.maxDepth # <<>>
  /\ lstat(WalkTop.path).error = NoError
  /\ lstat(WalkTop.path).stats.kind = "dir"
  /\ WalkTop.depth > wlk.maxDepth[1]

\* C15: with maxDepth = d, the depth walkPaths keeps for a path is its number
\* of levels below a root path (roots at 0), no directory at a depth greater
\* than d is listed, and skipping such a directory yields nothing, error
\* entries included.
C15_MaxDepthBoundsListing ==
  /\ [](\A i \in DOMAIN wlk.popped :
          \E r \in DOMAIN wlk.paths :
            /\ IsUnder(wlk.paths[r], wlk.popped[i].path)
            /\ wlk.popped[i].depth = LevelsBelow(wlk.paths[r], wlk.popped[i].path))
  /\ [](wlk.maxDepth # <<>>
          => \A i \in DOMAIN wlk.opened : wlk.opened[i].depth <= wlk.maxDepth[1])
  /\ [][SkipsDeepDirectory
          => /\ wlk'.yielded = wlk.yielded
             /\ wlk'.opened = wlk.opened
             /\ wlk'.stack = SubSeq(wlk.stack, 1, Len(wlk.stack) - 1)]_vars

\* the walk of r with maxDepth = 1 is over: r/sub/deep, at depth 2, was taken
\* from the stack and not listed, the three files above it were yielded and
\* no error
C15_Witness ==
  /\ wlk.status = "done"
  /\ wlk.paths = << <<"r">> >>
  /\ wlk.maxDepth = <<1>>
  /\ wlk.exclude = <<>> /\ wlk.failing = {}
  /\ \E i \in DOMAIN wlk.popped :
       wlk.popped[i] = [path |-> <<"r", "/", "sub", "/", "deep">>, depth |-> 2]
  /\ \A i \in DOMAIN wlk.opened : wlk.opened[i].path # <<"r", "/", "sub", "/", "deep">>
  /\ Len(wlk.yielded) = 3
  /\ \A i \in DOMAIN wlk.yielded : wlk.yielded[i].error = NoError

\* the lengths of the prefixes of p, from root on, that are parents of the
\* next component, and the length of the prefix one component longer
Cuts(root, p) == {k \in Len(root)..(Len(p) - 1) : p[k + 1] = PathSep}

NextCut(p, k) ==
  LET ends == {j \in (k + 2)..Len(p) : j = Len(p) \/ p[j + 1] = PathSep}
  IN CHOOSE j \in ends : \A i \in ends : j <= i

\* what the disk holds at a path that the walk may reach: nothing behind a
\* link
Holds(p) == IF Realpath(p, FALSE) = p THEN NodeAt(p) ELSE NoNode

StatFails(p) == Fails("lstat", p) \/ Holds(p).kind = "none"

\* the walk from root comes to p: every directory on the way can be examined
\* and listed, is within maxDepth and lists the next component, which no
\* exclusion pattern removes
Reaches(root, p) ==
  /\ IsUnder(root, p)
  /\ \A k \in Cuts(root, p) :
       LET dir == SubSeq(p, 1, k)
           child == SubSeq(p, 1, NextCut(p, k))
       IN /\ ~StatFails(dir)
          /\ Holds(dir).kind = "dir"
          /\ ~DepthExceeded(LevelsBelow(root, dir), wlk.maxDepth)
          /\ ~Fails("readdir", dir)
          /\ \E e \in DOMAIN Holds(dir).entries : PathJoin(dir, Holds(dir).entries[e]) = child
          /\ ~Excluded(child, wlk.exclude)

\* lstat fails at p, or p is a directory to list and readdir fails
FailsAt(root, p) ==
  \/ StatFails(p)
  \/ /\ Holds(p).kind = "dir"
     /\ ~DepthExceeded(LevelsBelow(root, p), wlk.maxDepth)
     /\ Fails("readdir", p)

WalkPaths == NodePaths \cup {wlk.paths[i] : i \in DOMAIN wlk.paths}

\* C16: a failure of lstat or readdir is yielded, not thrown, and the walk
\* goes on: when walkPaths returns it has yielded, for every path and every
\* root it reaches the path from, one error entry if lstat or readdir failed
\* there and one file entry if the path is a regular file, and nothing else.
C16_FailuresAreYielded ==
  wlk.status = "done" =>
    /\ \A i \in DOMAIN wlk.yielded : wlk.yielded[i].path \in WalkPaths
    /\ \A p \in WalkPaths :
         /\ Cardinality(ErrorsYielded(p))
              = Cardinality({r \in DOMAIN wlk.paths :
                               Reaches(wlk.paths[r], p) /\ FailsAt(wlk.paths[r], p)})
         /\ Cardinality(FilesYielded(p))
              = Cardinality({r \in DOMAIN wlk.paths :
                               /\ Reaches(wlk.paths[r], p)
                               /\ ~StatFails(p)
                               /\ Holds(p).kind = "file"})

\* the walk of r and of a missing path is over: readdir failed on r/sub,
\* lstat on the missing root, both were yielded as errors and the files of r
\* outside r/sub after them
C16_Witness ==
  /\ wlk.status = "done"
  /\ wlk.paths = << <<"r">>, <<"gone">> >>
  /\ wlk.failing = {[op |-> "readdir", path |-> <<"r", "/", "sub">>]}
  /\ wlk.exclude = <<>> /\ wlk.maxDepth = <<>>
  /\ ErrorsYielded(<<"gone">>) = {1}
  /\ Cardinality(ErrorsYielded(<<"r", "/", "sub">>)) = 1
  /\ Cardinality(FilesYielded(<<"r", "/", "a.js">>)) = 1
  /\ Cardinality(FilesYielded(<<"r", "/", "node_modules", "/", "pkg.js">>)) = 1
  /\ Len(wlk.yielded) = 4

\* what the try block of the handleScan call does: bytes read, matches,
\* whether the content was read and how often the digest was computed
ScanSteps == ScanCore(mt.sigs, mt.maxBytes, Len(mt.file.bytes), mt.file)

\* the globs of a signature that the path of the scanned file matches
GlobsMatching(signature) ==
  {k \in DOMAIN signature.globs : matchGlob(mt.file.path, signature.globs[k])}

\* the signatures eligible for the scanned file: no globs, or one that matches
Eligible ==
  {i \in DOMAIN mt.sigs : mt.sigs[i].globs = <<>> \/ GlobsMatching(mt.sigs[i]) # {}}

GlobOnly ==
  {i \in DOMAIN mt.sigs :
     /\ mt.sigs[i].globs # <<>>
     /\ mt.sigs[i].strings = <<>> /\ mt.sigs[i].regexes = <<>>
     /\ mt.sigs[i].hashes = <<>> /\ mt.sigs[i].packages = <<>>}

MatchesOf(id, type) ==
  {k \in DOMAIN ResultMatches :
     ResultMatches[k].signatureId = id /\ ResultMatches[k].indicatorType = type}

\* C17: in the result of an existing file whose scan did not fail, every
\* glob-only signature with a glob that matches the path has exactly one
\* match, of kind glob and with the first of its globs that matches as value,
\* whatever the contents of the file; and when every signature eligible for
\* the file is glob-only the scan cannot fail, bytesRead is 0, the content is
\* not read and no digest is computed.
C17_GlobOnlyWithoutContent ==
  (mt.result # NoResult /\ mt.file.exists) =>
    /\ mt.result[1].error = NoError =>
         \A i \in GlobOnly \cap Eligible :
           /\ Cardinality(MatchesOf(mt.sigs[i].id, "glob")) = 1
           /\ \A k \in DOMAIN ResultMatches :
                ResultMatches[k].signatureId = mt.sigs[i].id =>
                  /\ ResultMatches[k].indicatorType = "glob"
                  /\ \E g \in GlobsMatching(mt.sigs[i]) :
                       /\ ResultMatches[k].indicatorValue = mt.sigs[i].globs[g]
                       /\ \A h \in GlobsMatching(mt.sigs[i]) : g <= h
    /\ Eligible \subseteq GlobOnly =>
         /\ mt.result[1].error = NoError
         /\ mt.result[1].bytesRead = 0
         /\ ~ScanSteps.contentRead
         /\ ScanSteps.digestCalls = 0

\* a.bin, two fragments long, under two glob-only signatures: the second glob
\* of c-globs is the first that matches, c-js is not eligible, nothing is read
C17_Witness ==
  /\ mt.result # NoResult
  /\ mt.file.path = <<"a", "/", "b", ".bin">>
  /\ Len(mt.file.bytes) = 2
  /\ Len(mt.sigs) = 2
  /\ \E i \in DOMAIN mt.sigs : mt.sigs[i].id = "c-globs" /\ Eligible = {i}
  /\ DOMAIN mt.sigs \subseteq GlobOnly
  /\ Len(ResultMatches) = 1
  /\ ResultMatches[1].indicatorValue = BinGlob
  /\ mt.result[1].bytesRead = 0
  /\ ~ScanSteps.contentRead

\* the signatures with a match of an earlier kind in the result
MatchedEarlier ==
  {i \in DOMAIN mt.sigs :
     \E type \in {"glob", "string", "regex"} : MatchesOf(mt.sigs[i].id, type) # {}}

\* C18: in the result of an existing file whose scan did not fail, an
\* eligible signature without a glob, string or regex match has a sha256
\* match if and only if one of its hashes is the SHA-256 of all the bytes of
\* the file, and the value of every sha256 match is that digest and a hash of
\* its signature: also when the content was read up to maxBytes only and when
\* it was not read at all.
C18_DigestOfWholeFile ==
  (mt.result # NoResult /\ mt.file.exists /\ mt.result[1].error = NoError) =>
    /\ \A i \in Eligible \ MatchedEarlier :
         MatchesOf(mt.sigs[i].id, "sha256") # {}
           <=> \E h \in DOMAIN mt.sigs[i].hashes :
                 mt.sigs[i].hashes[h] = Sha256(mt.file.bytes)
    /\ \A k \in DOMAIN ResultMatches :
         ResultMatches[k].indicatorType = "sha256" =>
           /\ ResultMatches[k].indicatorValue = Sha256(mt.file.bytes)
           /\ \E i \in Eligible :
                /\ mt.sigs[i].id = ResultMatches[k].signatureId
                /\ \E h \in DOMAIN mt.sigs[i].hashes :
                     mt.sigs[i].hashes[h] = ResultMatches[k].indicatorValue

\* x.js, three fragments long, scanned with maxBytes 1: the one fragment read
\* holds no string or regex of c-all, whose hash of the whole file matches
C18_Witness ==
  /\ mt.result # NoResult
  /\ mt.file = FileEvilJs
  /\ mt.maxBytes = 1
  /\ mt.result[1].bytesRead = 1
  /\ ScanSteps.contentRead
  /\ \E k \in DOMAIN ResultMatches :
       /\ ResultMatches[k].signatureId = "c-all"
       /\ ResultMatches[k].indicatorType = "sha256"
       /\ ResultMatches[k].indicatorValue = Sha256(<<"an", "EVIL", "line">>)

\* some signature eligible for the scanned file has strings, regexes or
\* packages
ContentRequired ==
  \E i \in Eligible :
    mt.sigs[i].strings # <<>> \/ mt.sigs[i].regexes # <<>> \/ mt.sigs[i].packages # <<>>

\* C19: in the result of a scan that did not fail and required the content,
\* bytesRead is the size of the file when the path is a forced-full-read
\* lockfile or the size is at most maxBytes, and is at most maxBytes
\* otherwise, whatever the size of the chunks of the stream.
C19_ReadUpToMaxBytes ==
  (mt.result # NoResult /\ mt.file.exists /\ mt.result[1].error = NoError
     /\ ContentRequired) =>
    IF shouldForceFullRead(mt.file.path) \/ Len(mt.file.bytes) <= mt.maxBytes
      THEN mt.result[1].bytesRead = Len(mt.file.bytes)
    ELSE mt.result[1].bytesRead <= mt.maxBytes

\* the pairs <<name, version>> a dependencies tree pins
RECURSIVE PinsOfTree(_)
PinsOfTree(deps) ==
  UNION {LET value == deps[i].value
         IN CASE value.kind = "string" -> {<<deps[i].name, value.str>>}
              [] value.kind = "object" ->
                   (IF value.version # Absent
                      THEN {<<deps[i].name, value.version>>} ELSE {})
                   \cup PinsOfTree(value.dependencies)
              [] OTHER -> {}
         : i \in DOMAIN deps}

\* the pairs the packages map pins: an entry is named by its name field or
\* else by what follows the last node_modules/ of its key
PinsOfMap(packages) ==
  {<<IF packages[i].value.name # Absent THEN packages[i].value.name
     ELSE LastKeyPart(packages[i].key),
     packages[i].value.version>> :
     i \in {j \in DOMAIN packages :
              /\ packages[j].value.kind = "object"
              /\ packages[j].value.version # Absent
              /\ \/ packages[j].value.name # Absent
                 \/ packages[j].key # <<>> /\ LastKeyPart(packages[j].key) # ""}}

\* the pairs the scanned lockfile pins; a text that is not JSON pins none
Pinned ==
  IF mt.file.json.valid
    THEN PinsOfMap(mt.file.json.packages) \cup PinsOfTree(mt.file.json.dependencies)
  ELSE {}

\* the scanned path names a package-lock.json or an npm-shrinkwrap.json
IsNpmLockfile ==
  \/ EndsWith(ToLowerCase(mt.file.path), <<"package-lock.json">>)
  \/ EndsWith(ToLowerCase(mt.file.path), <<"npm-shrinkwrap.json">>)

\* lines 354 and 408: the package pass has run on the content of the file
PackagePassRan ==
  /\ mt.result # NoResult
  /\ mt.result[1].error = NoError
  /\ ScanSteps.contentRead
  /\ mt.result[1].bytesRead > 0

\* C20: when the package-lock matcher has run on a package-lock.json or
\* npm-shrinkwrap.json, the result has a package match of a signature with
\* value name@version exactly when the packages map or the dependencies tree
\* of the lockfile pins that name at that version and the signature lists the
\* pair (the pair is in the package index), and it has one such match only; a
\* name pinned at another version than the listed one gives no match.
C20_PinnedAndIndexed ==
  (PackagePassRan /\ IsNpmLockfile) =>
    /\ \A i \in DOMAIN mt.sigs : \A k \in DOMAIN mt.sigs[i].packages :
         LET pk == mt.sigs[i].packages[k]
             found == {m \in MatchesOf(mt.sigs[i].id, "package") :
                         ResultMatches[m].indicatorValue = <<pk.name, "@", pk.version>>}
         IN IF <<pk.name, pk.version>> \in Pinned
              THEN Cardinality(found) = 1
            ELSE found = {}
    /\ \A m \in DOMAIN ResultMatches :
         ResultMatches[m].indicatorType = "package" =>
           \E pin \in Pinned : \E i \in DOMAIN mt.sigs :
             /\ ResultMatches[m].signatureId = mt.sigs[i].id
             /\ ResultMatches[m].indicatorValue = <<pin[1], "@", pin[2]>>
             /\ \E k \in DOMAIN mt.sigs[i].packages :
                  /\ mt.sigs[i].packages[k].name = pin[1]
                  /\ mt.sigs[i].packages[k].version = pin[2]

\* npm-shrinkwrap.json pins left-pad at 1.3.36 and at 1.3.37 and is scanned
\* under c-mixed, which lists left-pad 1.3.37: one package match, with the
\* listed version
C20_Witness ==
  /\ PackagePassRan
  /\ mt.file = FileShrinkwrap
  /\ {<<"left-pad", "1.3.36">>, <<"left-pad", "1.3.37">>} \subseteq Pinned
  /\ Len(mt.sigs) = 1
  /\ mt.sigs[1].id = "c-mixed"
  /\ Cardinality(MatchesOf("c-mixed", "package")) = 1
  /\ \A m \in MatchesOf("c-mixed", "package") :
       ResultMatches[m].indicatorValue = <<"left-pad", "@", "1.3.37">>

\* the entries of the walk that failed, and the jobs lost with a worker
WalkFailed == {p \in 1..NumFiles : \E i \in ErrorsFor(p) : errors[i].error = "EIO"}
Crashed == {p \in 1..NumFiles : \E i \in ErrorsFor(p) : errors[i].error = "crash"}

\* what the matching engine answers for the file at p under the pack
Answer(p) ==
  handleScan(PoolSignatures, MaxBytes,
             [path |-> p, size |-> Len(FileAt(p).bytes)], FileAt(p))

\* the detections and errors the tree and the pack fix for the entry at p
ExpectedDetections(p) ==
  IF p \in WalkFailed \cup Crashed \/ <<p>> = signatureSource
     \/ Answer(p).error # NoError
    THEN <<>>
  ELSE [i \in DOMAIN Answer(p).matches |-> ToDetection(Answer(p), Answer(p).matches[i])]

ExpectedErrors(p) ==
  IF p \in WalkFailed THEN <<[path |-> p, error |-> "EIO"]>>
  ELSE IF <<p>> = signatureSource THEN <<>>
  ELSE IF p \in Crashed THEN <<[path |-> p, error |-> "crash"]>>
  ELSE IF Answer(p).error # NoError THEN <<[path |-> p, error |-> Answer(p).error]>>
  ELSE <<>>

\* C21: when scan() returns its summary, the detections and the errors of
\* every entry of the walk are those the tree and the pack fix for it (the
\* matches of its file, or the one error of its walk, scan or lost worker),
\* each once: they depend neither on the number of workers nor on the order
\* in which the workers finish, which only orders the entries of different
\* files.
C21_SummaryIndependentOfPool ==
  pc = "done" =>
    \A p \in 1..NumFiles :
      /\ SelectSeq(detections, LAMBDA d : d.path = p) = ExpectedDetections(p)
      /\ SelectSeq(errors, LAMBDA e : e.path = p) = ExpectedErrors(p)

\* scan() has returned from a pool of two workers whose results came back out
\* of walk order: the detection of a later file stands before that of an
\* earlier one, and the errors of the failing files are there
C21_Witness ==
  /\ pc = "done"
  /\ threads = 2
  /\ faults = 0
  /\ \E i, j \in DOMAIN detections :
       i < j /\ detections[i].path > detections[j].path
  /\ \E i, j \in DOMAIN errors : i < j /\ errors[i].path > errors[j].path
  /\ DetectionsFor(1) # {} /\ DetectionsFor(5) # {}

\* C22: a run of the CLI whose scan returned a summary exits with 2 when the
\* summary has a detection, with 1 when it has none but an error, and with 0
\* otherwise.
C22_ExitCodes ==
  (cli.pc = "returned" /\ cli.summary # <<>>) =>
    ExitCode = (IF cli.summary[1].detections > 0 THEN 2
                ELSE IF cli.summary[1].errors > 0 THEN 1 ELSE 0)

\* C23: when loadSignatures fails (manifest not found or not parsable,
\* circular extends, unknown profile id) scan() does nothing but reject with
\* that error: no worker is spawned, no entry of the walk is taken and no job
\* is submitted; and scan() rejects at that point for no other reason.
C23_LoadFailureAborts ==
  /\ boot.loader # NoError =>
       /\ boot.pc \in {"load", "rejected"}
       /\ boot.spawned = 0 /\ boot.walked = 0 /\ boot.submitted = 0
       /\ boot.pc = "rejected" => boot.error = boot.loader
  /\ boot.pc = "rejected" => boot.loader # NoError

\* scan() has rejected with the circular-extends error of the loader
C23_Witness ==
  /\ boot.pc = "rejected"
  /\ boot.error = CircularError
  /\ boot.spawned = 0

\* C25: the pool scan() builds has options.threads workers when that is a
\* positive number, and otherwise cores - 1 workers but at least 2 and at
\* most 32.
C25_PoolSize ==
  boot.pc \in {"walk", "running"} =>
    /\ boot.spawned = boot.threads
    /\ IF boot.threadsOption.kind = "number" /\ boot.threadsOption.value >= 1
         THEN boot.threads = boot.threadsOption.value
       ELSE /\ boot.threads \in 2..32
            /\ boot.cores - 1 \in 2..32 => boot.threads = boot.cores - 1
            /\ boot.cores - 1 < 2 => boot.threads = 2
            /\ boot.cores - 1 > 32 => boot.threads = 32

\* 34 cores and options.threads 0: the pool has 32 workers
C25_Witness ==
  /\ boot.pc = "walk"
  /\ boot.cores = 34
  /\ boot.threadsOption = [kind |-> "number", value |-> 0]
  /\ boot.spawned = 32

\* the pool takes the error event of worker w in this step
ErrorEventTaken(w) ==
  /\ outbox[w] # <<>>
  /\ Head(outbox[w]).type = "error"
  /\ outbox'[w] = Tail(outbox[w])

\* the records that are free once worker w has been marked idle
FreeAfterFault(w) == {v \in DOMAIN workers : v = w \/ ~workers[v].busy}

\* C24: when the pool handles the fault of a worker, the job of that worker
\* is rejected and no other promise changes; the records of the other busy
\* workers stay as they are; the jobs at the head of the queue, as many as
\* there are free records (the faulted worker's included), are posted as scan
\* messages to free records, in queue order, and the rest of the queue stays
\* in place; with an empty queue the faulted worker is left idle.
C24_FaultRejectsOneJob ==
  [][\A w \in DOMAIN workers :
       ErrorEventTaken(w) =>
         LET job == workers[w].currentJob
             k == IF Len(queue) < Cardinality(FreeAfterFault(w))
                    THEN Len(queue) ELSE Cardinality(FreeAfterFault(w))
         IN /\ job # NoJob => promise'[job] = "rejected"
            /\ \A p \in DOMAIN promise : p # job => promise'[p] = promise[p]
            /\ \A v \in DOMAIN workers :
                 (v # w /\ workers[v].busy) => workers'[v] = workers[v]
            /\ queue' = SubSeq(queue, k + 1, Len(queue))
            /\ Len(posted') = Len(posted) + k
            /\ \A i \in 1..k :
                 LET m == posted'[Len(posted) + i]
                 IN /\ m.type = "scan" /\ m.path = queue[i]
                    /\ m.to \in FreeAfterFault(w)
                    /\ workers'[m.to] = [busy |-> TRUE, currentJob |-> queue[i]]
            /\ \A v \in FreeAfterFault(w) :
                 workers'[v].busy =>
                   \E i \in 1..k : posted'[Len(posted) + i].to = v
            /\ queue # <<>> => workers'[w].busy]_vars

\* a job was rejected with its worker, which holds a later job again while
\* the other worker is busy and a job waits in the queue
C24_Witness ==
  \E w, v \in DOMAIN workers : \E p \in DOMAIN promise :
    /\ v # w
    /\ promise[p] = "rejected"
    /\ wk[w].status = "dead"
    /\ workers[w].busy /\ workers[w].currentJob > p
    /\ promise[workers[w].currentJob] = "pending"
    /\ workers[v].busy
    /\ queue # <<>>

\* C26: the entry of the walk that is the manifest's own path is never
\* submitted: no job promise is made for it, no scan message names it and
\* the summary has no detection for it.
C26_ManifestNotScanned ==
  /\ promise[SignatureSource] = "none"
  /\ \A i \in DOMAIN posted : posted[i].type = "scan" => posted[i].path # SignatureSource
  /\ DetectionsFor(SignatureSource) = {}

\* the number of path separators of a string
CountSep(s) == Cardinality({i \in DOMAIN s : s[i] = "/"})

\* the glob as globToRegExp reads it: a backslash is a separator
NormalizedGlob(glob) == [i \in DOMAIN glob |-> IF glob[i] = "\\" THEN "/" ELSE glob[i]]

\* the positions of the wildcards of a glob
Wildcards(glob) == {i \in DOMAIN glob : glob[i] \in {"*", "?"}}

\* the glob's only wildcard is one "*"
SingleStar(glob) == Cardinality(Wildcards(glob)) = 1 /\ \E i \in Wildcards(glob) : glob[i] = "*"

\* the path agrees with the glob outside the wildcard at position star,
\* whatever the case of the letters: the part before it is the start of the
\* path and the part after it is the end of the path
AgreesOutside(path, glob, star) ==
  LET tail == Len(glob) - star
  IN /\ Len(path) >= Len(glob) - 1
     /\ \A i \in 1..(star - 1) : LowerAtom(path[i]) = LowerAtom(glob[i])
     /\ \A i \in 1..tail :
          LowerAtom(path[Len(path) - tail + i]) = LowerAtom(glob[star + i])

\* C27: a glob whose only wildcard is one "*" matches only paths that have
\* exactly as many separators as the glob and that agree with it, case
\* aside, before and after the wildcard: the match is anchored at both ends
\* and "*" stands for no separator.
C27_StarStaysInSegment ==
  (gl.pc = "returned" /\ SingleStar(gl.globPattern) /\ gl.result = <<TRUE>>) =>
    LET glob == NormalizedGlob(gl.globPattern)
        star == CHOOSE i \in Wildcards(glob) : TRUE
    IN /\ CountSep(gl.targetPath) = CountSep(glob)
       /\ AgreesOutside(gl.targetPath, glob, star)

\* a/* matched A/ab, in another case and with two fragments for the wildcard
C27_Witness ==
  /\ gl.pc = "returned"
  /\ gl.globPattern = <<"a", "/", "*">>
  /\ gl.targetPath = <<"A", "/", "a", "b">>
  /\ gl.result = <<TRUE>>

\* the content the handleScan call read: what the text pass looks at
ContentRead ==
  IF ContentRequired
  THEN ReadContent(mt.file, Len(mt.file.bytes), mt.maxBytes,
                   shouldForceFullRead(mt.file.path))
  ELSE <<>>

\* the strings, regexes and hashes of a signature that would match the
\* content read and the digest of the file
StringsMatching(signature) ==
  {x \in DOMAIN signature.strings :
     Includes(ToLowerCase(ContentRead), signature.strings[x])}

RegexesMatching(signature) ==
  {x \in DOMAIN signature.regexes : RegexTest(signature.regexes[x], ContentRead)}

HashesMatching(signature) ==
  {x \in DOMAIN signature.hashes : signature.hashes[x] = Sha256(mt.file.bytes)}

\* the least element of a non-empty set of indices
First(indices) == CHOOSE i \in indices : \A j \in indices : i <= j

\* the values of the matches of the result with the given signature id and
\* one of the kinds string, regex and sha256, as pairs <<kind, value>>
TextMatchesOf(id) ==
  {<<ResultMatches[k].indicatorType, ResultMatches[k].indicatorValue>> :
     k \in {k \in DOMAIN ResultMatches :
              /\ ResultMatches[k].signatureId = id
              /\ ResultMatches[k].indicatorType \in {"string", "regex", "sha256"}}}

\* the handleScan call went through its text pass and returned its matches
TextPassRan ==
  /\ mt.result # NoResult
  /\ mt.file.exists
  /\ mt.result[1].error = NoError
  /\ ContentRead # <<>>

\* C28: after a text pass, an eligible signature has one match of kind
\* string, with its first string found in the content, when one of its
\* strings is found; else one of kind regex, with its first regex that
\* matches, when one matches; else one of kind sha256 when one of its hashes
\* is the digest of the file; and never two of these kinds.
C28_StringThenRegexThenHash ==
  TextPassRan =>
    \A i \in Eligible :
      LET signature == mt.sigs[i]
          str == StringsMatching(signature)
          re == RegexesMatching(signature)
          hash == HashesMatching(signature)
      IN /\ Cardinality(MatchesOf(signature.id, "string"))
              + Cardinality(MatchesOf(signature.id, "regex"))
              + Cardinality(MatchesOf(signature.id, "sha256")) <= 1
         /\ TextMatchesOf(signature.id) =
              IF str # {} THEN {<<"string", signature.strings[First(str)]>>}
              ELSE IF re # {} THEN {<<"regex", signature.regexes[First(re)].source>>}
              ELSE IF hash # {} THEN {<<"sha256", Sha256(mt.file.bytes)>>}
              ELSE {}

\* a signature whose strings, regex and hash all match the file is reported
\* by its first string that matches
C28_Witness ==
  /\ TextPassRan
  /\ mt.file = FileEvilJs
  /\ ContentRead = <<"an", "EVIL">>
  /\ \E i \in Eligible :
       /\ mt.sigs[i].id = "c-all"
       /\ StringsMatching(mt.sigs[i]) = {1}
       /\ RegexesMatching(mt.sigs[i]) = {1}
       /\ HashesMatching(mt.sigs[i]) = {1}
  /\ TextMatchesOf("c-all") = {<<"string", <<"evil">>>>}

\* C29: no two matches of the result of one file have the same signature
\* id, the same kind and the same value, however often the lockfile pins the
\* same name at the same version.
C29_NoDuplicateDetections ==
  \A i, j \in DOMAIN ResultMatches :
    (/\ ResultMatches[i].signatureId = ResultMatches[j].signatureId
     /\ ResultMatches[i].indicatorType = ResultMatches[j].indicatorType
     /\ ResultMatches[i].indicatorValue = ResultMatches[j].indicatorValue) => i = j

\* a lockfile that pins left-pad 1.3.37 in its packages map and again in its
\* dependencies tree: one package match of the signature that lists the pair
C29_Witness ==
  /\ PackagePassRan
  /\ IsNpmLockfile
  /\ mt.file.json.valid
  /\ <<"left-pad", "1.3.37">> \in PinsOfMap(mt.file.json.packages)
  /\ <<"left-pad", "1.3.37">> \in PinsOfTree(mt.file.json.dependencies)
  /\ Cardinality({k \in MatchesOf("c-mixed", "package") :
                    ResultMatches[k].indicatorValue = <<"left-pad", "@", "1.3.37">>}) = 1

\* the eligible signatures whose hashes the handleScan call compares with
\* the digest: in the text pass those with hashes that none of their strings
\* and regexes matched, without content every one with hashes
HashChecked ==
  {i \in Eligible :
     /\ mt.sigs[i].hashes # <<>>
     /\ ContentRead # <<>> =>
          StringsMatching(mt.sigs[i]) = {} /\ RegexesMatching(mt.sigs[i]) = {}}

\* the handleScan call got as far as its passes: the file exists and its
\* content, when required, could be read
PassesRan ==
  /\ mt.result # NoResult
  /\ mt.file.exists
  /\ ContentRequired => mt.file.readError = NoError

\* C30: one handleScan call computes the digest of the file at most once,
\* however many eligible signatures compare their hashes with it, and not at
\* all when none does; the digest it compares with is the one of the file of
\* this call.
C30_DigestAtMostOnce ==
  mt.result # NoResult =>
    /\ ScanSteps.digestCalls <= 1
    /\ ScanSteps.digestCalls = 1 <=> (PassesRan /\ HashChecked # {})
    /\ \A k \in DOMAIN ResultMatches :
         ResultMatches[k].indicatorType = "sha256" =>
           ResultMatches[k].indicatorValue = Sha256(mt.file.bytes)

\* two eligible signatures compared their hashes with the digest in the text
\* pass, both matched, and the digest was computed once
C30_Witness ==
  /\ PassesRan
  /\ ContentRead # <<>>
  /\ Cardinality(HashChecked) = 2
  /\ ScanSteps.digestCalls = 1
  /\ Cardinality({k \in DOMAIN ResultMatches :
                    ResultMatches[k].indicatorType = "sha256"}) = 2

\* what the loadCompromisedPackages call of the loadManifest call returned
PackageEntries == IF pkgs.result = <<>> THEN <<>> ELSE pkgs.result[1].entries

\* the entries given back as the inline list of a manifest without file
AsManifest(entries) ==
  [id |-> Absent, compromisedPackagesFile |-> <<>>,
   compromisedPackages |->
     << [i \in DOMAIN entries |->
           RawPackage(entries[i].name, entries[i].version, <<>>)] >>,
   compromisedPackagesSignature |-> <<>>]

\* C31: the entries loadCompromisedPackages returns hold each pair of a name
\* and a trimmed version at most once, whichever of version, versions[], the
\* referenced file and the inline list gave the pair, none of them has an
\* empty version or one with surrounding whitespace, and normalizing them
\* again, or loading them again as an inline list, gives the same entries.
C31_PackagesNormalized ==
  pkgs.pc = "pushed" =>
    /\ \A i, j \in DOMAIN PackageEntries :
         (/\ PackageEntries[i].name = PackageEntries[j].name
          /\ PackageEntries[i].version = PackageEntries[j].version) => i = j
    /\ \A i \in DOMAIN PackageEntries :
         /\ PackageEntries[i].version # ""
         /\ TrimAtom(PackageEntries[i].version) = PackageEntries[i].version
    /\ NormalizeEntries(PackageEntries) = PackageEntries
    /\ loadCompromisedPackages(AsManifest(PackageEntries)).entries = PackageEntries

\* a at version 1 comes from the file (to trim), from a versions[] and from a
\* version of the inline list, which also gives a blank version and version
\* 2: the entries are a@1 and a@2
C31_Witness ==
  /\ pkgs.pc = "pushed"
  /\ pkgs.manifest.compromisedPackagesFile # <<>>
  /\ pkgs.manifest.compromisedPackagesFile[1].packages
       = << <<RawPackage("a", " 1 ", <<>>)>> >>
  /\ pkgs.manifest.compromisedPackages
       = << <<RawPackage("a", Absent, << <<"1", "  ", Absent, " 2">> >>),
              RawPackage("a", "1", << <<"1 ">> >>)>> >>
  /\ PackageEntries = <<[name |-> "a", version |-> "1"], [name |-> "a", version |-> "2"]>>

\* the indicators of one kind of a raw signature
IndicatorsOf(signature, type) ==
  SelectSeq(signature.indicators, LAMBDA indicator : indicator.type = type)

\* the globs of the glob indicators of a raw signature, in order
GlobPatterns(signature) ==
  [i \in DOMAIN IndicatorsOf(signature, "glob") |->
     IndicatorsOf(signature, "glob")[i].pattern]

\* C32: the loadManifest call pushes a compromised-packages signature exactly
\* when loadCompromisedPackages returned at least one entry, and one only;
\* its package indicators are those entries; without an override in the
\* manifest its id is the manifest's id (the name of the manifest file
\* without extension when it has none) followed by :compromised-packages and
\* its severity is critical; and when the manifest has no override, or one
\* without globs, its glob indicators are the default lockfile globs.
C32_PackageSignatureSynthesized ==
  pkgs.pc = "pushed" =>
    /\ Len(pkgs.signatures) = (IF PackageEntries # <<>> THEN 1 ELSE 0)
    /\ \A k \in DOMAIN pkgs.signatures :
         LET signature == pkgs.signatures[k]
             override == pkgs.manifest.compromisedPackagesSignature
             manifestId == IF pkgs.manifest.id # Absent THEN pkgs.manifest.id
                           ELSE "custom"
         IN /\ [i \in DOMAIN IndicatorsOf(signature, "package") |->
                  [name |-> IndicatorsOf(signature, "package")[i].name,
                   version |-> IndicatorsOf(signature, "package")[i].version]]
                 = PackageEntries
            /\ override = <<>> =>
                 /\ signature.id = manifestId \o ":compromised-packages"
                 /\ signature.severity = "critical"
            /\ (override = <<>> \/ override[1].globs = <<>>) =>
                 GlobPatterns(signature) = DEFAULT_LOCKFILE_GLOBS
            /\ override # <<>> =>
                 /\ signature.id = override[1].id
                 /\ signature.severity = override[1].severity

\* a manifest without id and without override whose list gives a@1: the
\* signature custom:compromised-packages, critical, on the seven lockfile globs
C32_Witness ==
  /\ pkgs.pc = "pushed"
  /\ pkgs.manifest.id = Absent
  /\ pkgs.manifest.compromisedPackagesSignature = <<>>
  /\ PackageEntries = <<[name |-> "a", version |-> "1"]>>
  /\ Len(pkgs.signatures) = 1
  /\ pkgs.signatures[1].id = "custom:compromised-packages"
  /\ pkgs.signatures[1].severity = "critical"
  /\ Len(GlobPatterns(pkgs.signatures[1])) = 7

\* the matches of kind package of the result
PackageMatches == {k \in DOMAIN ResultMatches : ResultMatches[k].indicatorType = "package"}

\* the full text of the scanned file is no JSON document
NotJson == ~mt.file.json.valid

\* C33: the result of a package-lock.json or npm-shrinkwrap.json whose text
\* is no valid JSON, read and hashed without failure, has no package match
\* and no error: the failure to parse is not reported.
C33_BrokenLockfileIsNoError ==
  (/\ mt.result # NoResult
   /\ mt.file.exists
   /\ IsNpmLockfile
   /\ NotJson
   /\ mt.file.readError = NoError
   /\ mt.file.hashError = NoError) =>
    /\ mt.result[1].type = "result"
    /\ mt.result[1].error = NoError
    /\ PackageMatches = {}

\* the package pass ran on a shrinkwrap file that is no JSON and holds the
\* text of a compromised pin of a signature in the index
C33_Witness ==
  /\ PackagePassRan
  /\ mt.file = FileBrokenLock
  /\ NotJson
  /\ PackageTokens(mt.sigs) # <<>>
  /\ Includes(ContentRead, PackageToken("left-pad", "1.3.37"))
  /\ mt.result[1].error = NoError
  /\ PackageMatches = {}
  /\ mt.result[1].bytesRead = Len(mt.file.bytes)

\* the messages of one type that worker w has been posted and has not taken
Untaken(w, type) ==
  Cardinality({i \in (taken[w] + 1)..Len(Inbox(w)) : Inbox(w)[i].type = type})

\* the steps worker w and its record still owe: an init message is one step
\* from being handled, a scan message three from being settled (receive,
\* finish, onmessage), a running handleScan two, a posted result one
OwedBy(w) ==
  Untaken(w, "init") + 3 * Untaken(w, "scan") + 2 * Cardinality(wk[w].active)
    + Len(outbox[w])

RECURSIVE OwedByUpTo(_)
OwedByUpTo(w) == IF w = 0 THEN 0 ELSE OwedBy(w) + OwedByUpTo(w - 1)

\* the steps left before scan() returns, at most: four for each entry not yet
\* walked, three for each queued job, what the workers owe, and the end
\* of the loop
StepsLeft ==
  4 * (NumFiles + 1 - nextEntry) + 3 * Len(queue) + OwedByUpTo(threads)
    + (IF pc \in {"walking", "raceCap"} THEN 1 ELSE 0)

\* some step of NextAnswering can be taken: the guards of WalkerYield and
\* WalkerEnd, OnMessage, WorkerReceive and WorkerFinish
StepReady ==
  \/ pc = "walking"
  \/ \E w \in 1..threads :
       \/ outbox[w] # <<>> /\ Head(outbox[w]).type = "result"
       \/ wk[w].status = "alive" /\ taken[w] < Len(Inbox(w))
       \/ wk[w].status = "alive" /\ wk[w].active # {}

(* C34: for threads >= 1 and any finite walk, when every worker answers each
   scan message it receives, scan() returns: until it has returned some step
   of the walk, of a worker or of the pool can be taken (it is not stuck at
   the admission cap of threads * 4, in the final wait on the pending set or
   in drain()), and every step taken brings the return nearer by at least one
   of a finite number of steps left. *)
C34_ScanReturns ==
  /\ [](pc # "done" => StepReady)
  /\ [][pc # "done" => StepsLeft' < StepsLeft]_vars

\* scan() has returned after all files went through the one worker of the pool
C34_Witness ==
  /\ pc = "done"
  /\ threads = 1
  /\ \A path \in 1..NumFiles : promise[path] = "fulfilled"

\* where the pool holds job p: the places of the queue and the records
InQueue(p) == Cardinality({i \in DOMAIN queue : queue[i] = p})
HeldBy(p) == {w \in 1..threads : workers[w].currentJob = p}
ScanMessagesOf(p) ==
  {i \in DOMAIN posted : posted[i].type = "scan" /\ posted[i].path = p}

\* every worker is alive, has taken all its messages, runs nothing and has
\* nothing for the pool
AllAnswered ==
  \A w \in 1..threads :
    /\ wk[w].status = "alive"
    /\ taken[w] = Len(Inbox(w))
    /\ wk[w].active = {}
    /\ outbox[w] = <<>>

(* C35: a job submitted to the pool is settled once: an unsettled job is held
   in exactly one place (once in the queue, or as the current job of one
   record, after one scan message), a settled job in none and its promise
   keeps its state; the result a record is about to resolve its job with is
   the worker's answer for the path of that job; and when the workers have
   answered everything no submitted job is left unsettled. *)
C35_SettledExactlyOnce ==
  /\ [](\A p \in DOMAIN promise :
         /\ promise[p] = "pending" => InQueue(p) + Cardinality(HeldBy(p)) = 1
         /\ promise[p] # "pending" => InQueue(p) + Cardinality(HeldBy(p)) = 0
         /\ Cardinality(ScanMessagesOf(p)) = Cardinality(HeldBy(p))
               + (IF promise[p] \in {"fulfilled", "rejected"} THEN 1 ELSE 0))
  /\ [](\A w \in 1..threads :
         outbox[w] # <<>> /\ Head(outbox[w]).type = "result"
           => /\ workers[w].currentJob # NoJob
              /\ Head(outbox[w]).path = workers[w].currentJob
              /\ Head(outbox[w]) =
                   handleScan(PoolSignatures, MaxBytes,
                              [path |-> workers[w].currentJob,
                               size |-> Len(FileAt(workers[w].currentJob).bytes)],
                              FileAt(workers[w].currentJob)))
  /\ [](AllAnswered => \A p \in DOMAIN promise : promise[p] # "pending")
  /\ [][\A p \in DOMAIN promise :
          /\ promise[p] \in {"fulfilled", "rejected"} => promise'[p] = promise[p]
          /\ promise[p] = "pending" => promise'[p] # "none"]_vars

\* one job was resolved and one rejected, a third is with a worker and a
\* fourth waits in the queue
C35_Witness ==
  /\ \E p \in DOMAIN promise : promise[p] = "fulfilled"
  /\ \E p \in DOMAIN promise : promise[p] = "rejected"
  /\ \E w \in 1..threads : workers[w].busy
  /\ queue # <<>>

(* C36: after every handled event (a submit, a worker result, a worker error)
   the pool is work-conserving: a job waits in the queue only while every
   record is busy. *)
C36_WorkConserving == queue # <<>> => \A w \in 1..threads : workers[w].busy

\* a worker error has been handled: its job is rejected, the record was given
\* the next job and another still waits behind two busy records
C36_Witness ==
  /\ threads = 2
  /\ faults = 1
  /\ \E p \in DOMAIN promise : promise[p] = "rejected"
  /\ queue # <<>>
  /\ \A w \in 1..threads : workers[w].busy

\* the jobs scan() has submitted, and those of them with an entry in errors
SubmittedJobs == {p \in 1..NumFiles : promise[p] # "none"}
ErrorsOf(p) == SelectSeq(errors, LAMBDA e : e.path = p)
FailedJobs == {p \in SubmittedJobs : ErrorsOf(p) # <<>>}

(* C37: when scan() returns, with a Metrics object that was new at the call,
   every submitted job counts once, as a scanned file or as an error and never
   as both: scannedFiles plus the errors of jobs (those not of the walk) is
   the number of submitted jobs, a job has at most one error and then no
   detection, the matches counter is the length of detections and the errors
   counter the length of errors. *)
C37_EveryJobAccounted ==
  pc = "done" =>
    /\ metrics.filesScanned + (Len(errors) - walkErrs) = Cardinality(SubmittedJobs)
    /\ metrics.filesScanned = Cardinality(SubmittedJobs \ FailedJobs)
    /\ \A p \in SubmittedJobs :
         /\ Len(ErrorsOf(p)) <= 1
         /\ p \in FailedJobs => \A i \in DOMAIN detections : detections[i].path # p
    /\ metrics.matches = Len(detections)
    /\ metrics.errors = Len(errors)

\* scan() has returned with scanned files, detections, a job that failed and
\* an error of the walk
C37_Witness ==
  /\ pc = "done"
  /\ metrics.filesScanned > 0
  /\ detections # <<>>
  /\ FailedJobs # {}
  /\ walkErrs > 0

(* C38: in one walk, whatever the list of roots (a root given twice, a root
   inside another root), walkPaths yields no regular file more than once. *)
C38_EachFileYieldedOnce ==
  \A i, j \in DOMAIN wlk.yielded :
    (/\ i # j
     /\ wlk.yielded[i].error = NoError
     /\ wlk.yielded[j].error = NoError)
      => wlk.yielded[i].path # wlk.yielded[j].path

\* the paths of the manifests under resolution
OnStack == {ld.stack[i].absolute : i \in DOMAIN ld.stack}

(* C39: a pack that is reached through two different extends paths (custom
   extends latest and shai-hulud, and both extend base) loads: context.visited
   holds exactly the paths of the manifests under resolution, so only a path
   on the current stack is rejected; every readable chain without a cycle
   loads, the circular-extends error is raised for cyclic chains only, and
   after a load that succeeded the stack and visited are empty. *)
C39_DiamondLoads ==
  /\ ld.status = "loading" => ld.visited = OnStack
  /\ ld.status = "loaded" => (ld.stack = <<>> /\ ld.visited = {})
  /\ (ld.status \in {"loaded", "failed"} /\ ~ExtendsCyclic /\ ChainReadable)
       => ld.status = "loaded"
  /\ ld.error = CircularError => ExtendsCyclic

\* custom.json extends latest and shai-hulud, both extend base, and the load
\* has succeeded with the signature of base in the pack
C39_Witness ==
  /\ ld.status = "loaded"
  /\ ExtendsOf(CustomPath) = {LatestPath, ShaiHuludPath}
  /\ ExtendsOf(LatestPath) = {BasePath}
  /\ ExtendsOf(ShaiHuludPath) = {BasePath}
  /\ \E i \in DOMAIN ld.signatures : ld.signatures[i].id = "s4"

\* the results worker w has posted and the pool has not handled
ResultsOf(w) == SelectSeq(outbox[w], LAMBDA m : m.type = "result")

(* C40: a worker handles its init message before any scan message: init is the
   first message of its inbox, a worker that has taken a scan message holds
   the compiled signatures and the maxBytes the pool was created with, and
   every result it posts is what handleScan gives with these (and the package
   index built from them), not with the empty state the worker starts in. *)
C40_InitBeforeScan ==
  \A w \in 1..threads :
    /\ Inbox(w)[1].type = "init"
    /\ \A i \in 2..Len(Inbox(w)) : Inbox(w)[i].type # "init"
    /\ (wk[w].active # {} \/ taken[w] > 1)
         => (wk[w].signatures = PoolSignatures /\ wk[w].maxBytes = MaxBytes)
    /\ \A i \in DOMAIN ResultsOf(w) :
         LET result == ResultsOf(w)[i]
         IN result = handleScan(PoolSignatures, MaxBytes,
                                [path |-> result.path,
                                 size |-> Len(FileAt(result.path).bytes)],
                                FileAt(result.path))

\* a worker has posted a result with a match that the empty signature set of
\* its initial state would not have given
C40_Witness ==
  \E w \in 1..threads :
    /\ ResultsOf(w) # <<>>
    /\ ResultsOf(w)[1].matches # <<>>
    /\ handleScan(<<>>, DefaultMaxBytes,
                  [path |-> ResultsOf(w)[1].path,
                   size |-> Len(FileAt(ResultsOf(w)[1].path).bytes)],
                  FileAt(ResultsOf(w)[1].path)).matches = <<>>

====
